---- MODULE Spec2Model ----
(***************************************************************************)
(* VikingDB client scripts: the HMAC-SHA256 request signer that every      *)
(* script carries a copy of, the API callers built around it (call_api,    *)
(* call_control_plane, call_dataplane, call_vikingdb,                      *)
(* VikingDBControlPlaneClient.request, VikingDBDataPlaneClient.upsert_one) *)
(* and the functions of list.py / update.py that drive call_api.           *)
(*                                                                         *)
(* Text is a sequence of tokens.  A token is one character wherever the    *)
(* code looks inside the text (query keys and values, timestamps, paths'   *)
(* first character) and a whole word where the code only copies it (host   *)
(* names, region, credentials).  SHA-256 and HMAC are symbolic and         *)
(* injective: a digest is its input between marker tokens that occur       *)
(* nowhere else.                                                           *)
(***************************************************************************)
EXTENDS Integers, Sequences, FiniteSets, TLC

(***************************************************************************)
(* Bounds of the model                                                     *)
(***************************************************************************)
\* clock ticks (seconds) the model lets pass after the process started
MaxTicks == 1
\* API calls one process makes
MaxCalls == 2
\* items the server holds in the list it pages out
MaxItems == 3
\* keys of a query mapping handed to norm_query on its own
MaxParams == 3
\* API calls running at the same time
NumTasks == 2

(***************************************************************************)
(* Text primitives                                                         *)
(***************************************************************************)
\* printable ASCII in code-point order, first entry is code point 32 (the
\* grave accent, code point 96, is written as the token "grave")
Ascii == <<" ", "!", "\"", "#", "$", "%", "&", "'", "(", ")", "*", "+", ",", "-", ".", "/", "0", "1", "2", "3", "4", "5", "6", "7", "8", "9", ":", ";", "<", "=", ">", "?", "@", "A", "B", "C", "D", "E", "F", "G", "H", "I", "J", "K", "L", "M", "N", "O", "P", "Q", "R", "S", "T", "U", "V", "W", "X", "Y", "Z", "[", "\\", "]", "^", "_", "grave", "a", "b", "c", "d", "e", "f", "g", "h", "i", "j", "k", "l", "m", "n", "o", "p", "q", "r", "s", "t", "u", "v", "w", "x", "y", "z", "{", "|", "}", "~">>

\* ord(c) of Python for a printable ASCII character
ord(c) == 31 + (CHOOSE i \in 1..Len(Ascii) : Ascii[i] = c)

HexDigits == <<"0", "1", "2", "3", "4", "5", "6", "7", "8", "9", "A", "B", "C", "D", "E", "F">>

Letters == {"a", "b", "c", "d", "e", "f", "g", "h", "i", "j", "k", "l", "m", "n", "o", "p", "q", "r", "s", "t", "u", "v", "w", "x", "y", "z", "A", "B", "C", "D", "E", "F", "G", "H", "I", "J", "K", "L", "M", "N", "O", "P", "Q", "R", "S", "T", "U", "V", "W", "X", "Y", "Z"}

Digits == {"0", "1", "2", "3", "4", "5", "6", "7", "8", "9"}

\* str.join: the elements of list with sep between neighbours
RECURSIVE Join(_, _)
Join(sep, list) ==
  IF list = <<>> THEN <<>>
  ELSE IF Len(list) = 1 THEN list[1]
  ELSE LET h == Len(list) \div 2
       IN Join(sep, SubSeq(list, 1, h)) \o sep \o Join(sep, SubSeq(list, h + 1, Len(list)))

\* the slice s[:n]
Prefix(s, n) == IF Len(s) <= n THEN s ELSE SubSeq(s, 1, n)

\* the slice s[:-1]
DropLast(s) == IF s = <<>> THEN <<>> ELSE SubSeq(s, 1, Len(s) - 1)

\* str.replace(old, new) for a one-character old
RECURSIVE Replace(_, _, _)
Replace(s, old, new) ==
  IF s = <<>> THEN <<>>
  ELSE (IF Head(s) = old THEN new ELSE <<Head(s)>>) \o Replace(Tail(s), old, new)

\* s < t in Python's order on str: lexicographic by code point
RECURSIVE StrLess(_, _)
StrLess(s, t) ==
  IF t = <<>> THEN FALSE
  ELSE IF s = <<>> THEN TRUE
  ELSE IF Head(s) = Head(t) THEN StrLess(Tail(s), Tail(t))
  ELSE ord(Head(s)) < ord(Head(t))

\* urllib.parse.quote_plus(s, safe): as quote, but a space becomes "+"
RECURSIVE quote_plus(_, _)
quote_plus(s, safe) ==
  IF s = <<>> THEN <<>>
  ELSE (IF Head(s) = " " THEN <<"+">>
        ELSE IF Head(s) \in Letters \cup Digits \cup {"_", ".", "-", "~"} \cup safe
        THEN <<Head(s)>>
        ELSE <<"%", HexDigits[(ord(Head(s)) \div 16) + 1], HexDigits[(ord(Head(s)) % 16) + 1]>>)
       \o quote_plus(Tail(s), safe)

\* urllib.parse.quote(s, safe): letters, digits, "_.-~" and the characters of
\* safe stay; every other character becomes %XX, XX its code point in
\* upper-case hex
RECURSIVE quote(_, _)
quote(s, safe) ==
  IF s = <<>> THEN <<>>
  ELSE (IF Head(s) \in Letters \cup Digits \cup {"_", ".", "-", "~"} \cup safe
        THEN <<Head(s)>>
        ELSE <<"%", HexDigits[(ord(Head(s)) \div 16) + 1], HexDigits[(ord(Head(s)) % 16) + 1]>>)
       \o quote(Tail(s), safe)

\* the safe argument every norm_query passes to quote
SafeChars == {"-", "_", ".", "~"}

(***************************************************************************)
(* Hashing (symbolic)                                                      *)
(***************************************************************************)
\* hashlib.sha256(s.encode("utf-8")).hexdigest()
sha256_hex(s) == <<"sha256hex(">> \o s \o <<")sha256hex">>

\* hmac.new(key, msg.encode("utf-8"), hashlib.sha256).digest()
hmac_sha256(key, msg) == <<"hmac(">> \o key \o <<"|hmac|">> \o msg \o <<")hmac">>

\* bytes.hex()
hex(b) == <<"hex(">> \o b \o <<")hex">>

(***************************************************************************)
(* Clock: seconds since 2025-06-09T00:00:00Z                               *)
(***************************************************************************)
DigitChars == <<"0", "1", "2", "3", "4", "5", "6", "7", "8", "9">>

Pad2(n) == <<DigitChars[((n \div 10) % 10) + 1], DigitChars[(n % 10) + 1]>>

Pad4(n) == Pad2(n \div 100) \o Pad2(n % 100)

\* the process starts two seconds before midnight UTC
StartClock == (23 * 3600) + (59 * 60) + 59

\* now.strftime("%Y%m%dT%H%M%SZ") for a reading in June 2025
strftime(t) ==
  Pad4(2025) \o Pad2(6) \o Pad2(9 + (t \div 86400)) \o <<"T">>
  \o Pad2((t % 86400) \div 3600) \o Pad2((t % 3600) \div 60) \o Pad2(t % 60) \o <<"Z">>

(***************************************************************************)
(* Module-level configuration of the scripts                               *)
(***************************************************************************)
\* control-plane host: HOST of list.py, CP_HOST of task.py and idSearch.py
HOST == <<"vikingdb.ap-southeast-1.byteplusapi.com">>

\* data-plane host
DP_HOST == <<"api-vikingdb.vikingdb.ap-southeast-1.bytepluses.com">>

REGION == <<"ap-southeast-1">>

SERVICE == <<"vikingdb">>

VERSION == <<"2", "0", "2", "5", "-", "0", "6", "-", "0", "9">>

\* the query keys the callers write
ActionKey == <<"A", "c", "t", "i", "o", "n">>

VersionKey == <<"V", "e", "r", "s", "i", "o", "n">>

\* the value os.getenv returns for a variable that is not set
None == [set |-> FALSE, v |-> <<>>]

\* a value that is set
Some(s) == [set |-> TRUE, v |-> s]

\* str(x) inside an f-string, for a string or None
py_str(x) == IF x.set THEN x.v ELSE <<"None">>

(***************************************************************************)
(* Query mappings: a dict is the sequence of its (key, value) items in     *)
(* insertion order, keys unique.  A value is one string or a list of       *)
(* strings.                                                                *)
(***************************************************************************)
Scalar(s) == [list |-> FALSE, v |-> <<s>>]

List(l) == [list |-> TRUE, v |-> l]

Item(k, val) == [key |-> k, val |-> val]

Keys(d) == {d[i].key : i \in 1..Len(d)}

HasKey(d, k) == \E i \in 1..Len(d) : d[i].key = k

Get(d, k) == d[CHOOSE i \in 1..Len(d) : d[i].key = k].val

\* {**d, k: val}: an existing key keeps its position and takes the new value
DictSet(d, k, val) ==
  IF HasKey(d, k) THEN [i \in 1..Len(d) |-> IF d[i].key = k THEN Item(k, val) ELSE d[i]]
  ELSE Append(d, Item(k, val))

\* {**d, **e}
RECURSIVE DictMerge(_, _)
DictMerge(d, e) ==
  IF e = <<>> THEN d ELSE DictMerge(DictSet(d, Head(e).key, Head(e).val), Tail(e))

\* the items as they were inserted
InsertionOrder(d) == d

\* sorted(params.items()) and sorted(params.keys()): the items by ascending key
RECURSIVE SortedItems(_)
SortedItems(d) ==
  IF d = <<>> THEN <<>>
  ELSE LET m == CHOOSE i \in 1..Len(d) : \A j \in 1..Len(d) : ~StrLess(d[j].key, d[i].key)
           rest == [i \in 1..(Len(d) - 1) |-> IF i < m THEN d[i] ELSE d[i + 1]]
       IN <<d[m]>> \o SortedItems(rest)

\* str(v) of a query value: a string is itself, a list of strings is its repr
str_value(val) ==
  IF ~val.list THEN val.v[1]
  ELSE <<"[">> \o Join(<<",", " ">>, [i \in 1..Len(val.v) |-> <<"'">> \o val.v[i] \o <<"'">>]) \o <<"]">>

\* norm_query of list.py and of every script but createVikingdbCollection.py
norm_query(params) ==
  LET items == SortedItems(params)
  IN Join(<<"&">>, [i \in 1..Len(items) |->
       quote(items[i].key, SafeChars) \o <<"=">> \o quote(str_value(items[i].val), SafeChars)])

\* the pairs one key adds to the query in createVikingdbCollection.norm_query
client_norm_query_key(item) ==
  IF item.val.list
  THEN Join(<<>>, [i \in 1..Len(item.val.v) |->
         quote(item.key, SafeChars) \o <<"=">> \o quote(item.val.v[i], SafeChars) \o <<"&">>])
  ELSE quote(item.key, SafeChars) \o <<"=">> \o quote(str_value(item.val), SafeChars) \o <<"&">>

\* norm_query of createVikingdbCollection.py
client_norm_query(params) ==
  LET items == SortedItems(params)
      query == Join(<<>>, [i \in 1..Len(items) |-> client_norm_query_key(items[i])])
  IN Replace(DropLast(query), "+", <<"%", "2", "0">>)

(***************************************************************************)
(* Request bodies: a dict of JSON values, or None                          *)
(***************************************************************************)
\* a JSON value of a body: a scalar already written as JSON text, or a list of them
json_value(val, item_sep) ==
  IF ~val.list THEN val.v[1]
  ELSE <<"[">> \o Join(item_sep, val.v) \o <<"]">>

\* json.dumps(body, separators=(item_sep, key_sep))
json_dumps(body, item_sep, key_sep) ==
  IF ~body.set THEN <<"null">>
  ELSE <<"{">> \o Join(item_sep, [i \in 1..Len(body.v) |->
         <<"\"">> \o body.v[i].key \o <<"\"">> \o key_sep \o json_value(body.v[i].val, item_sep)])
       \o <<"}">>

\* json.dumps(body, separators=(",", ":"))
json_dumps_compact(body) == json_dumps(body, <<",">>, <<":">>)

\* json.dumps(body) with the default separators
json_dumps_default(body) == json_dumps(body, <<",", " ">>, <<":", " ">>)

(***************************************************************************)
(* State                                                                   *)
(***************************************************************************)
VARIABLES
  env,      \* the environment: AK and SK, each set or not
  script,   \* the script this process runs
  pc,       \* where the process is
  now,      \* the UTC clock, in seconds
  call,     \* the API call in progress, or the last one
  prev,     \* the API call before it
  resp,     \* the HTTP response to call
  outcome,  \* what the API caller gave back for call: a value or an exception
  fn,       \* the function of list.py / update.py that is running, with its locals
  result,   \* what the last top-level function gave back to its caller
  nsigned,  \* signatures computed by this process so far
  nsent,    \* requests handed to the HTTP transport so far
  arg,      \* the arguments of a helper function called on its own
  ret,      \* what that helper function returned
  tasks     \* the API calls running side by side, each with its locals

vars == <<env, script, pc, now, call, prev, resp, outcome, fn, result, nsigned, nsent, arg, ret, tasks>>

\* AK = os.getenv("AK"), SK = os.getenv("SK")
AK == env.AK

SK == env.SK

(***************************************************************************)
(* The signer, as written in call_api (list.py) and copied into            *)
(* call_control_plane, call_dataplane and call_vikingdb                    *)
(***************************************************************************)
\* a signer that keeps the reading of its first call
utcnow_cached == StartClock

\* datetime.datetime.now(datetime.timezone.utc): a reading of the clock
utcnow == now

\* "content-type;host;x-content-sha256;x-date"
signed_headers == <<"content-type", ";", "host", ";", "x-content-sha256", ";", "x-date">>

\* a header block whose last line is not ended by a newline
canonical_headers_unterminated(host, body_hash, x_date) ==
  <<"content-type", ":", "application/json", "\n">>
  \o <<"host", ":">> \o host \o <<"\n">>
  \o <<"x-content-sha256", ":">> \o body_hash \o <<"\n">>
  \o <<"x-date", ":">> \o x_date

\* the four header lines of the canonical request, each ended by a newline
canonical_headers(host, body_hash, x_date) ==
  <<"content-type", ":", "application/json", "\n">>
  \o <<"host", ":">> \o host \o <<"\n">>
  \o <<"x-content-sha256", ":">> \o body_hash \o <<"\n">>
  \o <<"x-date", ":">> \o x_date \o <<"\n">>

\* a canonical request that signs no payload
canonical_request_unsigned_payload(method, path, query, host, body_hash, x_date) ==
  Join(<<"\n">>, <<method, path, norm_query(query),
                   canonical_headers(host, <<"UNSIGNED-PAYLOAD">>, x_date), signed_headers,
                   (<<"UNSIGNED-PAYLOAD">>)>>)

canonical_request(method, path, query, host, body_hash, x_date) ==
  Join(<<"\n">>, <<method, path, norm_query(query),
                   canonical_headers(host, body_hash, x_date), signed_headers, body_hash>>)

\* f"{short_date}/{REGION}/{SERVICE}/request"
credential_scope(short_date, region, service) ==
  short_date \o <<"/">> \o region \o <<"/">> \o service \o <<"/", "request">>

string_to_sign(x_date, scope, canonical) ==
  Join(<<"\n">>, <<(<<"HMAC-SHA256">>), x_date, scope, sha256_hex(canonical)>>)

\* a key chain that leaves the date out
signing_key_undated(sk, short_date, region, service) ==
  hmac_sha256(hmac_sha256(hmac_sha256(sk, region), service), <<"request">>)

\* a key chain that takes the service before the region
signing_key_swapped(sk, short_date, region, service) ==
  hmac_sha256(hmac_sha256(hmac_sha256(hmac_sha256(sk, short_date), service), region), <<"request">>)

\* k_date, k_region, k_service, k_signing
signing_key(sk, short_date, region, service) ==
  hmac_sha256(hmac_sha256(hmac_sha256(hmac_sha256(sk, short_date), region), service), <<"request">>)

\* the Authorization header value
authorization(ak, scope, sh, signature) ==
  <<"HMAC-SHA256 Credential=">> \o ak \o <<"/">> \o scope
  \o <<", SignedHeaders=">> \o sh \o <<", Signature=">> \o signature

\* the headers dict of call_api
request_headers(host, x_date, body_hash, auth) ==
  << Item(<<"Content-Type">>, <<"application/json">>),
     Item(<<"Host">>, host),
     Item(<<"X-Date">>, x_date),
     Item(<<"X-Content-Sha256">>, body_hash),
     Item(<<"Authorization">>, auth) >>

\* a caller that hands the transport the body object (json=body), which the
\* transport serialises with its own separators
transport_data_json(body, body_str) == json_dumps_default(body)

\* what requests.post is given as data
transport_data(body, body_str) == body_str

\* a caller that leaves the query to the URL and gives the transport no params
transport_params_none(query) == <<>>

\* what requests.post is given as params
transport_params(query) == query

NoWire == [sent |-> FALSE, method |-> <<>>, url |-> <<>>, headers |-> <<>>, params |-> <<>>, data |-> <<>>]

NoCall ==
  [caller |-> "none", t |-> 0, method |-> <<>>, path |-> <<>>, host |-> <<>>, body |-> None,
   query |-> <<>>, x_date |-> <<>>, short_date |-> <<>>, body_str |-> <<>>, body_hash |-> <<>>,
   canonical_request |-> <<>>, credential_scope |-> <<>>,
   k_signing |-> <<>>, signature |-> <<>>, authorization |-> <<>>, signed |-> FALSE,
   exc |-> <<>>, wire |-> NoWire]

\* One run of the signer and the hand-over to requests.post, for the callers
\* that differ only in host, path and query.  SK.encode() raises AttributeError
\* when SK is None: by then the body hash and the canonical request exist, no
\* key and no signature.
sign_and_post(caller, path, query, host, body, t) ==
  LET method == <<"POST">>
      x_date == strftime(t)
      short_date == Prefix(x_date, 8)
      body_str == json_dumps_compact(body)
      body_hash == sha256_hex(body_str)
      canonical == canonical_request(method, path, query, host, body_hash, x_date)
      scope == credential_scope(short_date, REGION, SERVICE)
      sts == string_to_sign(x_date, scope, canonical)
      k_signing == signing_key(SK.v, short_date, REGION, SERVICE)
      signature == hex(hmac_sha256(k_signing, sts))
      auth == authorization(py_str(AK), scope, signed_headers, signature)
      base == [NoCall EXCEPT !.caller = caller, !.method = method, !.path = path, !.host = host,
                 !.body = body, !.query = query, !.x_date = x_date, !.short_date = short_date,
                 !.body_str = body_str, !.body_hash = body_hash,
                 !.canonical_request = canonical, !.credential_scope = scope]
  IN IF ~SK.set
     THEN [base EXCEPT !.exc = <<"AttributeError">>]
     ELSE [base EXCEPT !.k_signing = k_signing, !.signature = signature,
             !.authorization = auth, !.signed = TRUE,
             !.wire = [sent |-> TRUE, method |-> method,
                       url |-> <<"https://">> \o host \o path,
                       headers |-> request_headers(host, x_date, body_hash, auth),
                       params |-> transport_params(query),
                       data |-> transport_data(body, body_str)]]

\* the query of call_api, call_control_plane and idSearch.call_vikingdb
action_version_query(action, version) ==
  << Item(ActionKey, Scalar(action)), Item(VersionKey, Scalar(version)) >>

\* list.py: call_api(action, body)
call_api(action, body, t) ==
  sign_and_post("call_api", <<"/">>, action_version_query(action, VERSION), HOST, body, t)

\* task.py: call_control_plane(action, body)
call_control_plane(action, body, t) ==
  sign_and_post("call_control_plane", <<"/">>, action_version_query(action, VERSION), HOST, body, t)

\* delete.py: call_dataplane(body, path)
call_dataplane(body, path, t) ==
  sign_and_post("call_dataplane", path, <<>>, DP_HOST, body, t)

\* idSearch.py: call_vikingdb(action, body, host, path, version)
call_vikingdb(action, body, host, path, version, t) ==
  sign_and_post("call_vikingdb", path, action_version_query(action, version), host, body, t)

\* keywordSearch.py: call_vikingdb(action, body, host, path, version, is_control_plane);
\* action is a string or None
keyword_call_vikingdb(action, body, host, path, version, is_control_plane, t) ==
  sign_and_post("keyword_call_vikingdb", path,
                IF is_control_plane /\ action.set /\ action.v # <<>>
                THEN action_version_query(action.v, version) ELSE <<>>,
                host, body, t)

(***************************************************************************)
(* createVikingdbCollection.py: VikingDBControlPlaneClient.request         *)
(***************************************************************************)
\* str.upper() of the method names the model uses
py_upper(m) == IF m = <<"post">> THEN <<"POST">> ELSE IF m = <<"get">> THEN <<"GET">> ELSE m

\* request_body = "" if body is None else json.dumps(body)
client_request_body(body) == IF ~body.set THEN <<>> ELSE json_dumps_default(body)

\* full_query = {"Action": action, "Version": self.version, **query}
client_full_query(action, version, query) ==
  DictMerge(action_version_query(action, version), query)

\* the canonical request without the empty element after the header lines
client_canonical_request_no_blank(method, path, full_query, content_type, host, x_content_sha256, x_date) ==
  Join(<<"\n">>, <<py_upper(method), path, client_norm_query(full_query),
                   Join(<<"\n">>, << <<"content-type", ":">> \o content_type,
                                     <<"host", ":">> \o host,
                                     <<"x-content-sha256", ":">> \o x_content_sha256,
                                     <<"x-date", ":">> \o x_date >>),
                   signed_headers, x_content_sha256>>)

\* the canonical request of request(): the header lines joined by newlines,
\* then an empty element, in one join
client_canonical_request(method, path, full_query, content_type, host, x_content_sha256, x_date) ==
  Join(<<"\n">>, <<py_upper(method), path, client_norm_query(full_query),
                   Join(<<"\n">>, << <<"content-type", ":">> \o content_type,
                                     <<"host", ":">> \o host,
                                     <<"x-content-sha256", ":">> \o x_content_sha256,
                                     <<"x-date", ":">> \o x_date >>),
                   <<>>, signed_headers, x_content_sha256>>)

\* "/".join([short_x_date, self.region, self.service_code, "request"])
client_credential_scope(short_x_date, region, service_code) ==
  Join(<<"/">>, <<short_x_date, region, service_code, (<<"request">>)>>)

\* headers = {"Host": ..., ..., "Authorization": authorization, **extra_headers}
client_headers(host, content_type, x_date, x_content_sha256, auth, extra_headers) ==
  DictMerge(<< Item(<<"Host">>, host),
               Item(<<"Content-Type">>, content_type),
               Item(<<"X-Date">>, x_date),
               Item(<<"X-Content-Sha256">>, x_content_sha256),
               Item(<<"Authorization">>, auth) >>, extra_headers)

\* request(method, action, body, query, extra_headers) on the client main() builds:
\* ak=AK, sk=SK, host=HOST, region=REGION, service_code="vikingdb", version=API_VERSION
request(method, action, body, query, extra_headers, t) ==
  LET query_or_empty == IF query.set THEN query.v ELSE <<>>
      extra_or_empty == IF extra_headers.set THEN extra_headers.v ELSE <<>>
      request_body == client_request_body(body)
      path == <<"/">>
      content_type == <<"application/json">>
      full_query == client_full_query(action, VERSION, query_or_empty)
      x_date == strftime(t)
      short_x_date == Prefix(x_date, 8)
      x_content_sha256 == sha256_hex(request_body)
      canonical == client_canonical_request(method, path, full_query, content_type, HOST,
                                            x_content_sha256, x_date)
      scope == client_credential_scope(short_x_date, REGION, SERVICE)
      sts == string_to_sign(x_date, scope, canonical)
      k_signing == signing_key(SK.v, short_x_date, REGION, SERVICE)
      signature == hex(hmac_sha256(k_signing, sts))
      auth == authorization(py_str(AK), scope, signed_headers, signature)
      base == [NoCall EXCEPT !.caller = "request", !.method = py_upper(method), !.path = path,
                 !.host = HOST, !.body = body, !.query = full_query, !.x_date = x_date,
                 !.short_date = short_x_date, !.body_str = request_body,
                 !.body_hash = x_content_sha256,
                 !.canonical_request = canonical, !.credential_scope = scope]
  IN IF ~SK.set
     THEN [base EXCEPT !.exc = <<"AttributeError">>]
     ELSE [base EXCEPT !.k_signing = k_signing, !.signature = signature,
             !.authorization = auth, !.signed = TRUE,
             !.wire = [sent |-> TRUE, method |-> method,
                       url |-> <<"https://">> \o HOST \o path,
                       headers |-> client_headers(HOST, content_type, x_date, x_content_sha256,
                                                  auth, extra_or_empty),
                       params |-> transport_params(full_query),
                       data |-> transport_data(body, request_body)]]

(***************************************************************************)
(* transferImages.py: VikingDBDataPlaneClient.upsert_one.  The request is  *)
(* signed by the SDK's SignerV4, which is not part of the repository: its  *)
(* headers are one opaque value.                                           *)
(***************************************************************************)
upsert_one(body, t) ==
  LET path == <<"/api/vikingdb/data/upsert">>
      body_str == json_dumps_default(body)
  IN [NoCall EXCEPT !.caller = "upsert_one", !.method = <<"POST">>, !.path = path,
        !.host = DP_HOST, !.body = body, !.body_str = body_str, !.signed = TRUE,
        !.wire = [sent |-> TRUE, method |-> <<"POST">>,
                  url |-> <<"https://">> \o DP_HOST \o path,
                  headers |-> << Item(<<"Accept">>, <<"application/json">>),
                                 Item(<<"Content-Type">>, <<"application/json">>),
                                 Item(<<"Host">>, DP_HOST),
                                 Item(<<"Authorization">>, <<"SignerV4.sign">>) >>,
                  params |-> <<>>,
                  data |-> body_str]]

(***************************************************************************)
(* The remote service and the HTTP response                                *)
(***************************************************************************)
\* str(n) for n >= 0
RECURSIVE int_text(_)
int_text(n) == IF n < 10 THEN <<DigitChars[n + 1]>> ELSE int_text(n \div 10) \o <<DigitChars[(n % 10) + 1]>>

\* the number a decimal text stands for
RECURSIVE parse_int(_)
parse_int(s) ==
  IF s = <<>> THEN 0
  ELSE (10 * parse_int(DropLast(s))) + ((CHOOSE i \in 1..10 : DigitChars[i] = s[Len(s)]) - 1)

\* the items the service holds in the list it pages out
ServerItems == [i \in 1..MaxItems |-> i]

\* the Fields of the collection the service holds
ServerFields == << <<"\"id\"">>, <<"\"image\"">> >>

NoPayload == [has_result |-> FALSE, items |-> <<>>, total |-> 0, fields |-> <<>>, message |-> <<>>]

\* page p of the service's list, size items a page
ServerPage(p, size) ==
  IF p < 1 \/ size < 1 \/ ((p - 1) * size) >= Len(ServerItems) THEN <<>>
  ELSE SubSeq(ServerItems, ((p - 1) * size) + 1,
              IF (p * size) < Len(ServerItems) THEN p * size ELSE Len(ServerItems))

\* the JSON the service answers a well-formed request with
ServerPayload(c) ==
  IF c.body.set /\ HasKey(c.body.v, <<"PageNumber">>) /\ HasKey(c.body.v, <<"PageSize">>)
  THEN [has_result |-> TRUE,
        items |-> ServerPage(parse_int(Get(c.body.v, <<"PageNumber">>).v[1]),
                             parse_int(Get(c.body.v, <<"PageSize">>).v[1])),
        total |-> Len(ServerItems), fields |-> <<>>, message |-> <<>>]
  ELSE [has_result |-> TRUE, items |-> <<>>, total |-> 0, fields |-> ServerFields,
        message |-> <<"success">>]

NoResp == [status_code |-> 0, text |-> <<>>, is_json |-> FALSE, payload |-> NoPayload]

\* what the transport can bring back for call c: the service's answer, other
\* 2xx answers, an answer whose body is no JSON, a JSON envelope without
\* Result, and rejections whose body says why
Responses(c) ==
  { [status_code |-> 200, text |-> <<"{\"Result\":...}">>, is_json |-> TRUE, payload |-> ServerPayload(c)],
    [status_code |-> 200, text |-> <<"{\"ResponseMetadata\":...}">>, is_json |-> TRUE, payload |-> NoPayload],
    [status_code |-> 200, text |-> <<"<html>">>, is_json |-> FALSE, payload |-> NoPayload],
    [status_code |-> 201, text |-> <<"{\"Result\":...}">>, is_json |-> TRUE, payload |-> ServerPayload(c)],
    [status_code |-> 400, text |-> <<"MissingParameter">>, is_json |-> TRUE, payload |-> NoPayload],
    [status_code |-> 500, text |-> <<"<html>">>, is_json |-> FALSE, payload |-> NoPayload] }

(***************************************************************************)
(* What a function gives its caller: a value or an exception                *)
(***************************************************************************)
NoOutcome ==
  [kind |-> "none", exc |-> <<>>, msg |-> <<>>, none |-> FALSE, status |-> 0,
   payload |-> NoPayload, text |-> <<>>, items |-> <<>>]

Raise(exc, msg) == [NoOutcome EXCEPT !.kind = "raise", !.exc = exc, !.msg = msg]

ReturnNone == [NoOutcome EXCEPT !.kind = "return", !.none = TRUE]

ReturnJson(payload) == [NoOutcome EXCEPT !.kind = "return", !.payload = payload]

ReturnList(items) == [NoOutcome EXCEPT !.kind = "return", !.items = items]

\* the message of the RuntimeError each copy of the caller raises
api_error_message(caller) ==
  CASE caller = "call_api" -> <<"BytePlus API error">>
    [] caller = "call_control_plane" -> <<"Control Plane API error">>
    [] caller = "call_dataplane" -> <<"Data Plane API error">>
    [] OTHER -> <<"VikingDB API error">>

\* a status test that lets every 2xx through
is_error_status_2xx(status_code) == status_code < 200 \/ status_code >= 300

\* the status test of call_api and its copies: response.status_code != 200
is_error_status(status_code) == status_code # 200

\* the end of call_api and its copies: raise on a status other than 200,
\* else response.json(), which raises when the body is no JSON
call_api_result(caller, r) ==
  IF is_error_status(r.status_code) THEN Raise(<<"RuntimeError">>, api_error_message(caller))
  ELSE IF r.is_json THEN ReturnJson(r.payload)
  ELSE Raise(<<"JSONDecodeError">>, <<"Expecting value">>)

\* the end of request(): (status_code, headers, json), json being the parsed
\* body, or {"raw_text": resp.text} when the body is no JSON: either way the
\* body reaches the caller
request_result(r) ==
  [NoOutcome EXCEPT !.kind = "return", !.status = r.status_code,
     !.payload = IF r.is_json THEN r.payload ELSE NoPayload,
     !.text = r.text]

\* the end of upsert_one: (resp.status_code, resp.text)
upsert_one_result(r) ==
  [NoOutcome EXCEPT !.kind = "return", !.status = r.status_code, !.text = r.text]

caller_result(caller, r) ==
  CASE caller = "request" -> request_result(r)
    [] caller = "upsert_one" -> upsert_one_result(r)
    [] OTHER -> call_api_result(caller, r)

(***************************************************************************)
(* Scripts                                                                 *)
(***************************************************************************)
\* one script for each copy of the caller that differs from the others
Scripts == {"list", "update", "task", "delete", "idSearch", "keywordSearch",
            "createVikingdbCollection", "transferImages"}

\* the scripts that start with: if not AK or not SK: raise ValueError(...)
HasCredentialCheck(s) == s \in {"task", "delete", "idSearch", "keywordSearch"}

\* bool(x) of a string or None
truthy(x) == x.set /\ x.v # <<>>

\* the bodies the model passes to a caller directly
Bodies ==
  { Some(<<>>),
    Some(<< Item(<<"ProjectName">>, Scalar(<<"\"AIAnimation\"">>)),
            Item(<<"collection_name">>, Scalar(<<"\"ImageCollection\"">>)),
            Item(<<"ids">>, List(<< <<"\"a\"">>, <<"\"b\"">> >>)) >>) }

GetVikingdbCollection == <<"G", "e", "t", "V", "i", "k", "i", "n", "g", "d", "b", "C", "o", "l", "l", "e", "c", "t", "i", "o", "n">>

GetVikingdbIndex == <<"G", "e", "t", "V", "i", "k", "i", "n", "g", "d", "b", "I", "n", "d", "e", "x">>

ListVikingdbCollection == <<"L", "i", "s", "t", "V", "i", "k", "i", "n", "g", "d", "b", "C", "o", "l", "l", "e", "c", "t", "i", "o", "n">>

ListVikingdbIndex == <<"L", "i", "s", "t", "V", "i", "k", "i", "n", "g", "d", "b", "I", "n", "d", "e", "x">>

ListVikingdbTask == <<"L", "i", "s", "t", "V", "i", "k", "i", "n", "g", "d", "b", "T", "a", "s", "k">>

UpdateVikingdbCollection == <<"U", "p", "d", "a", "t", "e", "V", "i", "k", "i", "n", "g", "d", "b", "C", "o", "l", "l", "e", "c", "t", "i", "o", "n">>

UpdateVikingdbIndex == <<"U", "p", "d", "a", "t", "e", "V", "i", "k", "i", "n", "g", "d", "b", "I", "n", "d", "e", "x">>

CreateVikingdbCollection == <<"C", "r", "e", "a", "t", "e", "V", "i", "k", "i", "n", "g", "d", "b", "C", "o", "l", "l", "e", "c", "t", "i", "o", "n">>

\* paths the data-plane scripts pass
DeletePath == <<"/", "api/vikingdb/data/delete">>

IdSearchPath == <<"/", "api/vikingdb/data/search/id">>

KeywordSearchPath == <<"/", "api/vikingdb/data/search/keywords">>

\* a path argument without its leading slash
RelativePath == <<"api/vikingdb/data/delete">>

\* the (action, host, path) triples idSearch.py calls call_vikingdb with: the
\* index listing of __main__ and the search of test_id_search
IdSearchCallSites ==
  { [action |-> ListVikingdbIndex, host |-> HOST, path |-> <<"/">>],
    [action |-> <<>>, host |-> DP_HOST, path |-> IdSearchPath] }

\* calls of keywordSearch.call_vikingdb: a control-plane call with the default
\* is_control_plane, and the search test_keywords_search makes
KeywordSearchCallSites ==
  { [action |-> Some(ListVikingdbIndex), host |-> HOST, path |-> <<"/">>, is_control_plane |-> TRUE],
    [action |-> None, host |-> DP_HOST, path |-> KeywordSearchPath, is_control_plane |-> FALSE] }

\* query and extra_headers arguments of request()
TagQuery ==
  << Item(<<"T", "a", "g">>, List(<< <<"b", " ", "c">>, <<"a">> >>)),
     Item(<<"D", "r", "y">>, Scalar(<<"1">>)) >>

TraceHeader == << Item(<<"X-Trace">>, <<"t1">>) >>

DateHeader ==
  << Item(<<"X-Date">>, <<"2", "0", "2", "0", "0", "1", "0", "1", "T", "0", "0", "0", "0", "0", "0", "Z">>) >>

HostHeader == << Item(<<"Host">>, <<"other.example.com">>) >>

\* the body main() of createVikingdbCollection.py sends, shortened
CreateBody ==
  Some(<< Item(<<"ProjectName">>, Scalar(<<"\"AIAnimation\"">>)),
          Item(<<"CollectionName">>, Scalar(<<"\"ImageCollection\"">>)) >>)

\* calls of request(): the one main() makes, and others its signature allows
ClientCallSites ==
  { [method |-> <<"POST">>, body |-> CreateBody, query |-> None, extra_headers |-> None],
    [method |-> <<"POST">>, body |-> None, query |-> None, extra_headers |-> None],
    [method |-> <<"post">>, body |-> CreateBody, query |-> Some(TagQuery), extra_headers |-> None],
    [method |-> <<"POST">>, body |-> CreateBody, query |-> Some(<<>>), extra_headers |-> Some(<<>>)],
    [method |-> <<"POST">>, body |-> CreateBody, query |-> None, extra_headers |-> Some(TraceHeader)],
    [method |-> <<"POST">>, body |-> None, query |-> None, extra_headers |-> Some(DateHeader)],
    [method |-> <<"POST">>, body |-> CreateBody, query |-> None, extra_headers |-> Some(HostHeader)] }

(***************************************************************************)
(* The functions of list.py and update.py that drive call_api              *)
(***************************************************************************)
\* str.upper() of one character
upper_char(c) == IF ord(c) >= 97 /\ ord(c) <= 122 THEN Ascii[ord(c) - 32 - 31] ELSE c

\* str.upper()
str_upper(s) == [i \in 1..Len(s) |-> upper_char(s[i])]

\* str.strip() for blanks
RECURSIVE str_strip(_)
str_strip(s) ==
  IF s = <<>> THEN <<>>
  ELSE IF Head(s) = " " THEN str_strip(Tail(s))
  ELSE IF s[Len(s)] = " " THEN str_strip(DropLast(s))
  ELSE s

\* what the user may type at a confirmation prompt
TypedInputs == { <<"Y", "E", "S">>, <<" ", "y", "e", "s">>, <<"n", "o">>, <<>> }

NoFn ==
  [name |-> "none", step |-> 0, page |-> 0, page_size |-> 0, got |-> <<>>,
   action |-> <<>>, body |-> None, by_name |-> FALSE, target |-> <<>>]

\* list_all_collections: page = 1, page_size = 100, collections = []
list_all_collections_start ==
  [NoFn EXCEPT !.name = "list_all_collections", !.page = 1, !.page_size = 100,
     !.action = ListVikingdbCollection,
     !.body = Some(<< Item(<<"ProjectName">>, Scalar(<<"\"AIAnimation\"">>)),
                      Item(<<"PageNumber">>, Scalar(int_text(1))),
                      Item(<<"PageSize">>, Scalar(int_text(100))) >>)]

\* list_all_indexes(page_size, ...): indexes = [], page = 1, body_base with the
\* Filter when one of the three filter arguments is given
list_all_indexes_start(has_filter, page_size) ==
  [NoFn EXCEPT !.name = "list_all_indexes", !.page = 1, !.page_size = page_size,
     !.action = ListVikingdbIndex,
     !.body = Some(<< Item(<<"ProjectName">>, Scalar(<<"\"AIAnimation\"">>)),
                      Item(<<"PageSize">>, Scalar(int_text(page_size))) >>
                   \o (IF has_filter THEN << Item(<<"Filter">>, Scalar(<<"{\"Status\":[\"READY\"]}">>)) >>
                       ELSE <<>>))]

\* arguments of list_all_indexes: the default page size of 50 without and with
\* a filter, and a page size below the number of indexes
ListAllIndexesArgs ==
  { [has_filter |-> FALSE, page_size |-> 50],
    [has_filter |-> TRUE, page_size |-> 50],
    [has_filter |-> FALSE, page_size |-> 2] }

\* body = {**body_base, "PageNumber": page} of the paging loops
page_body(f) == Some(DictSet(f.body.v, <<"PageNumber">>, Scalar(int_text(f.page))))

\* the body both get_*_details functions and the update functions start from:
\* CollectionName when collection_name is given, else ResourceId
target_item(collection_name, resource_id) ==
  IF truthy(collection_name)
  THEN Item(<<"CollectionName">>, Scalar(<<"\"">> \o collection_name.v \o <<"\"">>))
  ELSE Item(<<"ResourceId">>, Scalar(<<"\"">> \o resource_id.v \o <<"\"">>))

\* a paging loop that stops only once TotalCount items are held
page_step_until_total(f, payload) ==
  LET got == f.got \o payload.items
  IN IF Len(got) >= payload.total
     THEN [done |-> TRUE, fn |-> [f EXCEPT !.got = got]]
     ELSE [done |-> FALSE, fn |-> [f EXCEPT !.got = got, !.page = f.page + 1]]

\* a paging loop that never moves to the next page
page_step_same_page(f, payload) ==
  LET got == f.got \o payload.items
  IN IF payload.items = <<>> \/ Len(got) >= payload.total
     THEN [done |-> TRUE, fn |-> [f EXCEPT !.got = got]]
     ELSE [done |-> FALSE, fn |-> [f EXCEPT !.got = got]]

\* one pass of a paging loop over a page that came back: extend, then stop on
\* an empty page or once TotalCount items are held, else ask for the next page
page_step(f, payload) ==
  LET got == f.got \o payload.items
  IN IF payload.items = <<>> \/ Len(got) >= payload.total
     THEN [done |-> TRUE, fn |-> [f EXCEPT !.got = got]]
     ELSE [done |-> FALSE, fn |-> [f EXCEPT !.got = got, !.page = f.page + 1]]

\* list_all_collections has no handler: what call_api raises leaves the function
list_all_collections_on_raise(f, o) == o

\* list_all_indexes: except RuntimeError: print, break, return indexes;
\* any other exception leaves the function
list_all_indexes_on_raise(f, o) ==
  IF o.exc = <<"RuntimeError">> THEN ReturnList(f.got) ELSE o

\* get_collection_details, get_index_details, update_index and step 3 of
\* update_collection_description: except RuntimeError: print, return None
return_none_on_runtime_error(f, o) ==
  IF o.exc = <<"RuntimeError">> THEN ReturnNone ELSE o

\* step 1 of update_collection_description: except Exception: print, return None
return_none_on_exception(f, o) == ReturnNone

\* what the running function does with an exception out of call_api
on_raise(f, o) ==
  CASE f.name = "list_all_collections" -> list_all_collections_on_raise(f, o)
    [] f.name = "list_all_indexes" -> list_all_indexes_on_raise(f, o)
    [] f.name = "update_collection_description" /\ f.step = 1 -> return_none_on_exception(f, o)
    [] OTHER -> return_none_on_runtime_error(f, o)

\* an int argument that was not given
NoInt == [set |-> FALSE, v |-> 0]

SomeInt(n) == [set |-> TRUE, v |-> n]

\* an argument list of update_index with nothing to change
NoChange ==
  [index_name |-> <<"idx_hnsw_1">>, collection_name |-> Some(<<"ImageCollection">>),
   resource_id |-> None, new_description |-> None, cpu_quota |-> NoInt,
   shard_policy |-> None, shard_count |-> NoInt, scalar_index |-> FALSE]

\* the argument lists of update_index the model draws from: one for each
\* branch of its validation
UpdateIndexArgs ==
  { NoChange,
    [NoChange EXCEPT !.new_description = Some(<<"\"HNSW index\"">>)],
    [NoChange EXCEPT !.index_name = <<>>, !.new_description = Some(<<"\"HNSW index\"">>)],
    [NoChange EXCEPT !.collection_name = None, !.cpu_quota = SomeInt(4)],
    [NoChange EXCEPT !.collection_name = None, !.resource_id = Some(<<"vdb-1">>), !.cpu_quota = SomeInt(4)],
    [NoChange EXCEPT !.cpu_quota = SomeInt(0)],
    [NoChange EXCEPT !.cpu_quota = SomeInt(10241)],
    [NoChange EXCEPT !.shard_policy = Some(<<"manual">>)],
    [NoChange EXCEPT !.shard_policy = Some(<<"custom">>), !.shard_count = SomeInt(257)],
    [NoChange EXCEPT !.shard_policy = Some(<<"custom">>), !.shard_count = SomeInt(2)],
    [NoChange EXCEPT !.scalar_index = TRUE] }

\* update_index with the shard_count check only under the "custom" policy
update_index_validate_custom_only(a) ==
  IF a.index_name = <<>> THEN Raise(<<"ValueError">>, <<"index_name is required">>)
  ELSE IF ~truthy(a.collection_name) /\ ~truthy(a.resource_id)
    THEN Raise(<<"ValueError">>, <<"You must provide either collection_name or resource_id">>)
  ELSE IF a.cpu_quota.set /\ ~(1 <= a.cpu_quota.v /\ a.cpu_quota.v <= 10240)
    THEN Raise(<<"ValueError">>, <<"cpu_quota must be between 1 and 10240">>)
  ELSE IF a.shard_policy.set /\ a.shard_policy.v \notin {<<"auto">>, <<"custom">>}
    THEN Raise(<<"ValueError">>, <<"shard_policy must be 'auto' or 'custom'">>)
  ELSE IF a.shard_policy.set /\ a.shard_policy.v = <<"custom">>
          /\ a.shard_count.set /\ ~(1 <= a.shard_count.v /\ a.shard_count.v <= 256)
    THEN Raise(<<"ValueError">>, <<"shard_count must be between 1 and 256">>)
  ELSE IF ~(a.new_description.set \/ a.cpu_quota.set \/ a.shard_policy.set
            \/ a.shard_count.set \/ a.scalar_index)
    THEN ReturnNone
  ELSE NoOutcome

\* update_index up to the confirmation prompt: the ValueError it raises, the
\* None it returns when nothing is to change, or nothing yet
update_index_validate(a) ==
  IF a.index_name = <<>> THEN Raise(<<"ValueError">>, <<"index_name is required">>)
  ELSE IF ~truthy(a.collection_name) /\ ~truthy(a.resource_id)
    THEN Raise(<<"ValueError">>, <<"You must provide either collection_name or resource_id">>)
  ELSE IF a.cpu_quota.set /\ ~(1 <= a.cpu_quota.v /\ a.cpu_quota.v <= 10240)
    THEN Raise(<<"ValueError">>, <<"cpu_quota must be between 1 and 10240">>)
  ELSE IF a.shard_policy.set /\ a.shard_policy.v \notin {<<"auto">>, <<"custom">>}
    THEN Raise(<<"ValueError">>, <<"shard_policy must be 'auto' or 'custom'">>)
  ELSE IF a.shard_count.set /\ ~(1 <= a.shard_count.v /\ a.shard_count.v <= 256)
    THEN Raise(<<"ValueError">>, <<"shard_count must be between 1 and 256">>)
  ELSE IF ~(a.new_description.set \/ a.cpu_quota.set \/ a.shard_policy.set
            \/ a.shard_count.set \/ a.scalar_index)
    THEN ReturnNone
  ELSE NoOutcome

\* the body update_index builds
update_index_body(a) ==
  Some(<< Item(<<"ProjectName">>, Scalar(<<"\"default\"">>)),
          Item(<<"IndexName">>, Scalar(<<"\"">> \o a.index_name \o <<"\"">>)),
          target_item(a.collection_name, a.resource_id) >>
       \o (IF a.new_description.set THEN << Item(<<"Description">>, Scalar(a.new_description.v)) >> ELSE <<>>)
       \o (IF a.cpu_quota.set THEN << Item(<<"CpuQuota">>, Scalar(int_text(a.cpu_quota.v))) >> ELSE <<>>)
       \o (IF a.shard_policy.set THEN << Item(<<"ShardPolicy">>, Scalar(<<"\"">> \o a.shard_policy.v \o <<"\"">>)) >> ELSE <<>>)
       \o (IF a.shard_count.set THEN << Item(<<"ShardCount">>, Scalar(int_text(a.shard_count.v))) >> ELSE <<>>)
       \o (IF a.scalar_index THEN << Item(<<"ScalarIndex">>, List(<<>>)) >> ELSE <<>>))

\* the body of the Get request of get_collection_details and of step 1 of
\* update_collection_description
get_collection_body(collection_name, resource_id) ==
  Some(<< Item(<<"ProjectName">>, Scalar(<<"\"default\"">>)),
          target_item(collection_name, resource_id) >>)

\* the body of get_index_details
get_index_body(index_name, collection_name, resource_id) ==
  Some(<< Item(<<"ProjectName">>, Scalar(<<"\"default\"">>)),
          Item(<<"IndexName">>, Scalar(<<"\"">> \o index_name \o <<"\"">>)),
          target_item(collection_name, resource_id) >>)

\* the body of the Update request of update_collection_description
update_collection_body(f, current_fields) ==
  Some(<< Item(<<"ProjectName">>, Scalar(<<"\"default\"">>)),
          Item(<<"Description">>, Scalar(<<"\"new description\"">>)),
          Item(<<"Fields">>, List(current_fields)),
          IF f.by_name THEN Item(<<"CollectionName">>, Scalar(<<"\"">> \o f.target \o <<"\"">>))
          ELSE Item(<<"ResourceId">>, Scalar(<<"\"">> \o f.target \o <<"\"">>)) >>)

\* the collection_name and resource_id arguments the model draws from
OptNames == { None, Some(<<"ImageCollection">>) }

OptIds == { None, Some(<<"vdb-1">>) }

\* no helper function was called on its own
NoArg == [f |-> "none", params |-> <<>>, body |-> None]

(***************************************************************************)
(* Initial state and actions                                               *)
(***************************************************************************)
Init ==
  /\ env \in [AK : {None, Some(<<"AKTEST">>)}, SK : {None, Some(<<"SKTEST">>)}]
  /\ script \in Scripts
  /\ pc = "import"
  /\ now = StartClock
  /\ call = NoCall
  /\ prev = NoCall
  /\ resp = NoResp
  /\ outcome = NoOutcome
  /\ fn = NoFn
  /\ result = NoOutcome
  /\ nsigned = 0
  /\ nsent = 0
  /\ arg = NoArg
  /\ ret = <<>>
  /\ tasks = <<>>

\* the module-level code of the script: the credential check, where there is one
Import ==
  /\ pc = "import"
  /\ IF HasCredentialCheck(script) /\ (~truthy(AK) \/ ~truthy(SK))
     THEN /\ pc' = "aborted"
          /\ result' = Raise(<<"ValueError">>, <<"AK or SK missing in .env">>)
     ELSE /\ pc' = "idle"
          /\ UNCHANGED result
  /\ UNCHANGED <<arg, ret, tasks, env, script, now, call, prev, resp, outcome, fn, nsigned, nsent>>

\* a second passes
Tick ==
  /\ pc \notin {"import", "aborted"}
  /\ now < StartClock + MaxTicks
  /\ now' = now + 1
  /\ UNCHANGED <<arg, ret, tasks, env, script, pc, call, prev, resp, outcome, fn, result, nsigned, nsent>>

\* the caller runs up to the hand-over to the transport, or raises before it
Invoke(c) ==
  /\ nsent < MaxCalls
  /\ call' = [c EXCEPT !.t = now]
  /\ prev' = call
  /\ resp' = NoResp
  /\ nsigned' = nsigned + (IF c.signed THEN 1 ELSE 0)
  /\ nsent' = nsent + (IF c.wire.sent THEN 1 ELSE 0)
  /\ IF c.exc = <<>>
     THEN pc' = "sent" /\ outcome' = NoOutcome
     ELSE pc' = "returned" /\ outcome' = Raise(c.exc, <<"'NoneType' object has no attribute 'encode'">>)
  /\ result' = NoOutcome
  /\ UNCHANGED <<arg, ret, tasks, env, script, now>>

\* list.py, update.py: call_api called directly
CallApi ==
  /\ pc = "idle" /\ script \in {"list", "update"}
  /\ \E body \in Bodies : Invoke(call_api(GetVikingdbCollection, body, utcnow))
  /\ fn' = NoFn

\* task.py
CallControlPlane ==
  /\ pc = "idle" /\ script = "task"
  /\ \E body \in Bodies : Invoke(call_control_plane(ListVikingdbTask, body, utcnow))
  /\ fn' = NoFn

\* delete.py
CallDataplane ==
  /\ pc = "idle" /\ script = "delete"
  /\ \E body \in Bodies, path \in {DeletePath, RelativePath} :
       Invoke(call_dataplane(body, path, utcnow))
  /\ fn' = NoFn

\* idSearch.py
CallVikingdb ==
  /\ pc = "idle" /\ script = "idSearch"
  /\ \E body \in Bodies, a \in IdSearchCallSites :
       Invoke(call_vikingdb(a.action, body, a.host, a.path, VERSION, utcnow))
  /\ fn' = NoFn

\* keywordSearch.py
KeywordCallVikingdb ==
  /\ pc = "idle" /\ script = "keywordSearch"
  /\ \E body \in Bodies, a \in KeywordSearchCallSites :
       Invoke(keyword_call_vikingdb(a.action, body, a.host, a.path, VERSION, a.is_control_plane, utcnow))
  /\ fn' = NoFn

\* createVikingdbCollection.py
ClientRequest ==
  /\ pc = "idle" /\ script = "createVikingdbCollection"
  /\ \E a \in ClientCallSites :
       Invoke(request(a.method, CreateVikingdbCollection, a.body, a.query, a.extra_headers, utcnow))
  /\ fn' = NoFn

\* transferImages.py; what the SDK does without credentials is not in the repository
UpsertOne ==
  /\ pc = "idle" /\ script = "transferImages"
  /\ truthy(AK) /\ truthy(SK)
  /\ \E body \in Bodies : Invoke(upsert_one(body, utcnow))
  /\ fn' = NoFn

\* the transport brings a response back
Respond ==
  /\ pc = "sent"
  /\ \E r \in Responses(call) : resp' = r
  /\ pc' = "responded"
  /\ UNCHANGED <<arg, ret, tasks, env, script, now, call, prev, outcome, fn, result, nsigned, nsent>>

\* requests raises: no connection, or the 30 s timeout
TransportError ==
  /\ pc = "sent"
  /\ outcome' = Raise(<<"ConnectionError">>, <<"connection failed">>)
  /\ pc' = "returned"
  /\ UNCHANGED <<arg, ret, tasks, env, script, now, call, prev, resp, fn, result, nsigned, nsent>>

\* the caller's lines after the response
Complete ==
  /\ pc = "responded"
  /\ outcome' = caller_result(call.caller, resp)
  /\ pc' = "returned"
  /\ UNCHANGED <<arg, ret, tasks, env, script, now, call, prev, resp, fn, result, nsigned, nsent>>

\* a caller that was called directly is back
ReturnDirect ==
  /\ pc = "returned" /\ fn.name = "none"
  /\ result' = outcome
  /\ pc' = "idle"
  /\ UNCHANGED <<arg, ret, tasks, env, script, now, call, prev, resp, outcome, fn, nsigned, nsent>>

\* a function is entered: nothing of the last call is left in its frame
Begin(f, at) ==
  /\ fn' = f
  /\ pc' = at
  /\ result' = NoOutcome
  /\ resp' = NoResp
  /\ outcome' = NoOutcome
  /\ UNCHANGED <<arg, ret, tasks, env, script, now, call, prev, nsigned, nsent>>

\* a function ends before any request: its value or exception goes to its caller
Refuse(name, o) ==
  /\ fn' = [NoFn EXCEPT !.name = name]
  /\ pc' = "idle"
  /\ result' = o
  /\ resp' = NoResp
  /\ outcome' = NoOutcome
  /\ UNCHANGED <<arg, ret, tasks, env, script, now, call, prev, nsigned, nsent>>

\* a function ends after a request: its value or exception goes to its caller
Finish(f, o) ==
  /\ fn' = f
  /\ pc' = "idle"
  /\ result' = o
  /\ UNCHANGED <<arg, ret, tasks, env, script, now, call, prev, resp, outcome, nsigned, nsent>>

\* list.py: list_all_collections()
BeginListAllCollections ==
  /\ pc = "idle" /\ script = "list"
  /\ Begin(list_all_collections_start, "ready")

\* list.py: list_all_indexes(...)
BeginListAllIndexes ==
  /\ pc = "idle" /\ script = "list"
  /\ \E a \in ListAllIndexesArgs : Begin(list_all_indexes_start(a.has_filter, a.page_size), "ready")

\* list.py: get_collection_details(collection_name, resource_id)
BeginGetCollectionDetails ==
  /\ pc = "idle" /\ script = "list"
  /\ \E collection_name \in OptNames, resource_id \in OptIds :
       IF ~truthy(collection_name) /\ ~truthy(resource_id)
       THEN Refuse("get_collection_details",
                   Raise(<<"ValueError">>, <<"You must provide either collection_name or resource_id">>))
       ELSE Begin([NoFn EXCEPT !.name = "get_collection_details", !.action = GetVikingdbCollection,
                     !.body = get_collection_body(collection_name, resource_id)], "ready")

\* list.py: get_index_details(index_name, collection_name, resource_id)
BeginGetIndexDetails ==
  /\ pc = "idle" /\ script = "list"
  /\ \E index_name \in {<<>>, <<"idx_hnsw_1">>}, collection_name \in OptNames, resource_id \in OptIds :
       IF index_name = <<>>
       THEN Refuse("get_index_details", Raise(<<"ValueError">>, <<"index_name is required">>))
       ELSE IF ~truthy(collection_name) /\ ~truthy(resource_id)
       THEN Refuse("get_index_details",
                   Raise(<<"ValueError">>, <<"You must provide either collection_name or resource_id">>))
       ELSE Begin([NoFn EXCEPT !.name = "get_index_details", !.action = GetVikingdbIndex,
                     !.body = get_index_body(index_name, collection_name, resource_id)], "ready")

\* update.py: update_index(...) up to its confirmation prompt
BeginUpdateIndex ==
  /\ pc = "idle" /\ script = "update"
  /\ \E a \in UpdateIndexArgs :
       IF update_index_validate(a).kind # "none"
       THEN Refuse("update_index", update_index_validate(a))
       ELSE Begin([NoFn EXCEPT !.name = "update_index", !.action = UpdateVikingdbIndex,
                     !.body = update_index_body(a)], "confirm")

\* update.py: update_collection_description(collection_name, resource_id, ...)
\* up to its Get request
BeginUpdateCollectionDescription ==
  /\ pc = "idle" /\ script = "update"
  /\ \E collection_name \in OptNames, resource_id \in OptIds :
       IF ~truthy(collection_name) /\ ~truthy(resource_id)
       THEN Refuse("update_collection_description",
                   Raise(<<"ValueError">>, <<"You must provide either collection_name or resource_id">>))
       ELSE Begin([NoFn EXCEPT !.name = "update_collection_description", !.step = 1,
                     !.action = GetVikingdbCollection,
                     !.body = get_collection_body(collection_name, resource_id),
                     !.by_name = truthy(collection_name),
                     !.target = IF truthy(collection_name) THEN collection_name.v ELSE resource_id.v],
                  "ready")

\* the running function calls call_api
FnCall ==
  /\ pc = "ready"
  /\ Invoke(call_api(fn.action,
                     IF fn.name \in {"list_all_collections", "list_all_indexes"} THEN page_body(fn) ELSE fn.body,
                     utcnow))
  /\ UNCHANGED fn

\* call_api raised inside the running function
FnRaised ==
  /\ pc = "returned" /\ fn.name # "none" /\ outcome.kind = "raise"
  /\ Finish(fn, on_raise(fn, outcome))

\* what came back in the loop of list_all_collections or list_all_indexes
ListPage ==
  /\ pc = "returned" /\ fn.name \in {"list_all_collections", "list_all_indexes"}
  /\ outcome.kind = "return"
  /\ LET st == page_step(fn, outcome.payload)
     IN IF st.done THEN Finish(st.fn, ReturnList(st.fn.got))
        ELSE /\ fn' = st.fn
             /\ pc' = "ready"
             /\ UNCHANGED <<arg, ret, tasks, env, script, now, call, prev, resp, outcome, result, nsigned, nsent>>

\* get_collection_details, get_index_details, update_index and step 3 of
\* update_collection_description return the response they got
FnReturnResponse ==
  /\ pc = "returned" /\ outcome.kind = "return"
  /\ \/ fn.name \in {"get_collection_details", "get_index_details", "update_index"}
     \/ fn.name = "update_collection_description" /\ fn.step = 3
  /\ Finish(fn, outcome)

\* step 1 of update_collection_description got its response: without a Result
\* the ValueError it raises is caught by its own handler, else the fields are
\* kept and the prompt follows
UpdateCollectionGotCurrent ==
  /\ pc = "returned" /\ outcome.kind = "return"
  /\ fn.name = "update_collection_description" /\ fn.step = 1
  /\ IF ~outcome.payload.has_result
     THEN Finish(fn, ReturnNone)
     ELSE /\ fn' = [fn EXCEPT !.step = 2, !.action = UpdateVikingdbCollection,
                      !.body = update_collection_body(fn, outcome.payload.fields)]
          /\ pc' = "confirm"
          /\ UNCHANGED <<arg, ret, tasks, env, script, now, call, prev, resp, outcome, result, nsigned, nsent>>

\* the confirmation prompt of update_index and update_collection_description:
\* input(...).strip().upper() must be YES
Confirm ==
  /\ pc = "confirm"
  /\ \E typed \in TypedInputs :
       IF str_upper(str_strip(typed)) # <<"Y", "E", "S">>
       THEN Finish(fn, ReturnNone)
       ELSE /\ fn' = [fn EXCEPT !.step = IF fn.name = "update_collection_description" THEN 3 ELSE fn.step]
            /\ pc' = "ready"
            /\ UNCHANGED <<arg, ret, tasks, env, script, now, call, prev, resp, outcome, result, nsigned, nsent>>

Next ==
  \/ Import
  \/ Tick
  \/ CallApi
  \/ CallControlPlane
  \/ CallDataplane
  \/ CallVikingdb
  \/ KeywordCallVikingdb
  \/ ClientRequest
  \/ UpsertOne
  \/ Respond
  \/ TransportError
  \/ Complete
  \/ ReturnDirect
  \/ BeginListAllCollections
  \/ BeginListAllIndexes
  \/ BeginGetCollectionDetails
  \/ BeginGetIndexDetails
  \/ BeginUpdateIndex
  \/ BeginUpdateCollectionDescription
  \/ FnCall
  \/ FnRaised
  \/ ListPage
  \/ FnReturnResponse
  \/ UpdateCollectionGotCurrent
  \/ Confirm

Spec == Init /\ [][Next]_vars

(***************************************************************************)
(* The helper functions called on their own, as a test of them would:      *)
(* norm_query of list.py, norm_query of createVikingdbCollection.py, and   *)
(* request() with a query argument; one call from a fresh process          *)
(***************************************************************************)
\* keys and values of the query mappings: upper and lower case, blanks,
\* characters quote() escapes, lists
QueryKeys == { <<"B">>, <<"A">>, <<"a", " ", "b">> }

QueryValues ==
  { Scalar(<<"1">>),
    Scalar(<<"x", " ", "+", "~", "/">>),
    List(<< <<"b", " ", "c">>, <<"a">> >>),
    List(<<>>) }

QueryItems == { Item(k, v) : k \in QueryKeys, v \in QueryValues }

\* the dicts of at most MaxParams keys, in every insertion order
QueryMappings ==
  UNION { { m \in [1..n -> QueryItems] : \A i, j \in 1..n : i # j => m[i].key # m[j].key }
          : n \in 0..MaxParams }

InitHelpers ==
  /\ env = [AK |-> Some(<<"AKTEST">>), SK |-> Some(<<"SKTEST">>)]
  /\ script = "createVikingdbCollection"
  /\ pc = "helper"
  /\ now = StartClock
  /\ call = NoCall
  /\ prev = NoCall
  /\ resp = NoResp
  /\ outcome = NoOutcome
  /\ fn = NoFn
  /\ result = NoOutcome
  /\ nsigned = 0
  /\ nsent = 0
  /\ arg = NoArg
  /\ ret = <<>>
  /\ tasks = <<>>

\* list.py: norm_query(params)
CallNormQuery ==
  /\ pc = "helper"
  /\ \E params \in QueryMappings :
       /\ arg' = [f |-> "norm_query", params |-> params, body |-> None]
       /\ ret' = norm_query(params)
  /\ call' = NoCall
  /\ pc' = "returned"
  /\ UNCHANGED <<tasks, env, script, now, prev, resp, outcome, fn, result, nsigned, nsent>>

\* createVikingdbCollection.py: norm_query(params)
CallClientNormQuery ==
  /\ pc = "helper"
  /\ \E params \in QueryMappings :
       /\ arg' = [f |-> "client_norm_query", params |-> params, body |-> None]
       /\ ret' = client_norm_query(params)
  /\ call' = NoCall
  /\ pc' = "returned"
  /\ UNCHANGED <<tasks, env, script, now, prev, resp, outcome, fn, result, nsigned, nsent>>

\* createVikingdbCollection.py: client.request("POST", "CreateVikingdbCollection", body, query=params)
\* up to the hand-over to the transport
CallRequestWithQuery ==
  /\ pc = "helper"
  /\ \E params \in QueryMappings, body \in {None, CreateBody} :
       /\ arg' = [f |-> "request", params |-> params, body |-> body]
       /\ call' = [request(<<"POST">>, CreateVikingdbCollection, body, Some(params), None, utcnow)
                     EXCEPT !.t = now]
       /\ ret' = call'.signature
  /\ pc' = "returned"
  /\ UNCHANGED <<tasks, env, script, now, prev, resp, outcome, fn, result, nsigned, nsent>>

\* the action names given to both signers: names of the API and one with
\* characters the query encoding escapes
TwinActions == { ListVikingdbCollection, CreateVikingdbCollection, <<"A", " ", "b", "+", "/">> }

\* the same call made through both signers at one clock reading:
\* client.request(method, action, body) and list.py call_api(action, body)
CallRequestAndCallApi ==
  /\ pc = "helper"
  /\ \E action \in TwinActions, body \in Bodies \cup {None, CreateBody},
        method \in {<<"POST">>, <<"post">>} :
       /\ arg' = [f |-> "request and call_api", params |-> <<>>, body |-> body]
       /\ call' = [request(method, action, body, None, None, utcnow) EXCEPT !.t = now]
       /\ prev' = [call_api(action, body, utcnow) EXCEPT !.t = now]
       /\ ret' = call'.signature
  /\ pc' = "returned"
  /\ UNCHANGED <<tasks, env, script, now, resp, outcome, fn, result, nsigned, nsent>>

NextHelpers ==
  \/ CallNormQuery
  \/ CallClientNormQuery
  \/ CallRequestWithQuery
  \/ CallRequestAndCallApi

SpecHelpers == InitHelpers /\ [][NextHelpers]_vars

(***************************************************************************)
(* Several API calls at once.  Each call runs call_vikingdb of idSearch.py *)
(* or request() of the control-plane client statement by statement; the    *)
(* calls interleave with each other and with the clock.  The names a call  *)
(* assigns are local variables of its invocation; AK, SK, HOST, REGION,    *)
(* SERVICE and the client's attributes are only read.                      *)
(***************************************************************************)
\* the calls a task may make
ThreadCallSites ==
  { [caller |-> "call_vikingdb", method |-> <<"POST">>, action |-> c.action, body |-> b,
     host |-> c.host, path |-> c.path, query |-> None, extra_headers |-> None]
    : c \in IdSearchCallSites, b \in Bodies }
  \cup
  { [caller |-> "request", method |-> c.method, action |-> CreateVikingdbCollection, body |-> c.body,
     host |-> HOST, path |-> <<"/">>, query |-> c.query, extra_headers |-> None]
    : c \in { d \in ClientCallSites : ~d.extra_headers.set /\ d.body.set } }

\* the local variables of one invocation, before any is assigned
NoFrame ==
  [x_date |-> <<>>, short_date |-> <<>>, query |-> <<>>, body_str |-> <<>>, body_hash |-> <<>>,
   canonical_request |-> <<>>, credential_scope |-> <<>>, signature |-> <<>>, authorization |-> <<>>]

\* a task that has not run a statement: its arguments, its position, the
\* clock reading it took, what it handed to the transport
NewTask(c) ==
  [args |-> c, pc |-> 0, t |-> 0, frame |-> NoFrame, headers |-> <<>>, data |-> <<>>]

\* every invocation keeps its variables at module level, in one place
module_frame(i) == 1

\* the frame holding the variables of invocation i: its own
frame(i) == i

InitThreads ==
  /\ env = [AK |-> Some(<<"AKTEST">>), SK |-> Some(<<"SKTEST">>)]
  /\ script = "idSearch"
  /\ pc = "threads"
  /\ now = StartClock
  /\ call = NoCall
  /\ prev = NoCall
  /\ resp = NoResp
  /\ outcome = NoOutcome
  /\ fn = NoFn
  /\ result = NoOutcome
  /\ nsigned = 0
  /\ nsent = 0
  /\ arg = NoArg
  /\ ret = <<>>
  /\ tasks \in [1..NumTasks -> { NewTask(c) : c \in ThreadCallSites }]

\* the variables task i sees
Locals(i) == tasks[frame(i)].frame

\* task i assigns its variables and moves to its next statement
Assign(i, f) ==
  tasks' = [[tasks EXCEPT ![frame(i)].frame = f] EXCEPT ![i].pc = tasks[i].pc + 1]

\* request() serializes the body before it reads the clock, call_vikingdb after
ClockStep(i) == IF tasks[i].args.caller = "request" THEN 1 ELSE 0
SerializeStep(i) == IF tasks[i].args.caller = "request" THEN 0 ELSE 1

\* now = datetime.datetime.now(timezone.utc) / utcnow(); x_date; short_date
ThreadReadClock(i) ==
  /\ pc = "threads" /\ tasks[i].pc = ClockStep(i)
  /\ tasks' = [[tasks EXCEPT ![frame(i)].frame =
                   [Locals(i) EXCEPT !.x_date = strftime(utcnow),
                                     !.short_date = Prefix(strftime(utcnow), 8)]]
                 EXCEPT ![i].pc = tasks[i].pc + 1, ![i].t = now]
  /\ UNCHANGED <<arg, ret, env, script, pc, now, call, prev, resp, outcome, fn, result, nsigned, nsent>>

\* body_str = json.dumps(body, separators=(",", ":")) in call_vikingdb,
\* request_body = "" if body is None else json.dumps(body) in request()
ThreadSerialize(i) ==
  /\ pc = "threads" /\ tasks[i].pc = SerializeStep(i)
  /\ LET a == tasks[i].args
     IN Assign(i, [Locals(i) EXCEPT
                     !.body_str = IF a.caller = "request" THEN client_request_body(a.body)
                                  ELSE json_dumps_compact(a.body)])
  /\ UNCHANGED <<arg, ret, env, script, pc, now, call, prev, resp, outcome, fn, result, nsigned, nsent>>

\* query, body_hash, canonical_headers, canonical_request
ThreadCanonical(i) ==
  /\ pc = "threads" /\ tasks[i].pc = 2
  /\ LET a == tasks[i].args
         l == Locals(i)
         body_hash == sha256_hex(l.body_str)
         query == IF a.caller = "request"
                  THEN client_full_query(a.action, VERSION, IF a.query.set THEN a.query.v ELSE <<>>)
                  ELSE action_version_query(a.action, VERSION)
     IN Assign(i, [l EXCEPT
                     !.query = query,
                     !.body_hash = body_hash,
                     !.canonical_request =
                        IF a.caller = "request"
                        THEN client_canonical_request(a.method, a.path, query, <<"application/json">>,
                                                      a.host, body_hash, l.x_date)
                        ELSE canonical_request(a.method, a.path, query, a.host, body_hash, l.x_date)])
  /\ UNCHANGED <<arg, ret, env, script, pc, now, call, prev, resp, outcome, fn, result, nsigned, nsent>>

\* credential_scope, string_to_sign, the key chain, signature, Authorization
ThreadSign(i) ==
  /\ pc = "threads" /\ tasks[i].pc = 3
  /\ LET a == tasks[i].args
         l == Locals(i)
         scope == IF a.caller = "request"
                  THEN client_credential_scope(l.short_date, REGION, SERVICE)
                  ELSE credential_scope(l.short_date, REGION, SERVICE)
         signature == hex(hmac_sha256(signing_key(SK.v, l.short_date, REGION, SERVICE),
                                      string_to_sign(l.x_date, scope, l.canonical_request)))
     IN Assign(i, [l EXCEPT
                     !.credential_scope = scope,
                     !.signature = signature,
                     !.authorization = authorization(py_str(AK), scope, signed_headers, signature)])
  /\ UNCHANGED <<arg, ret, env, script, pc, now, call, prev, resp, outcome, fn, result, nsigned, nsent>>

\* headers = {...}; requests.post(url, headers=headers, params=query, data=body_str)
ThreadSend(i) ==
  /\ pc = "threads" /\ tasks[i].pc = 4
  /\ LET a == tasks[i].args
         l == Locals(i)
     IN tasks' = [tasks EXCEPT
                    ![i].pc = 5,
                    ![i].headers =
                       IF a.caller = "request"
                       THEN client_headers(a.host, <<"application/json">>, l.x_date, l.body_hash,
                                           l.authorization, <<>>)
                       ELSE request_headers(a.host, l.x_date, l.body_hash, l.authorization),
                    ![i].data = transport_data(a.body, l.body_str)]
  /\ UNCHANGED <<arg, ret, env, script, pc, now, call, prev, resp, outcome, fn, result, nsigned, nsent>>

NextThreads ==
  \/ Tick
  \/ \E i \in 1..NumTasks : ThreadReadClock(i)
  \/ \E i \in 1..NumTasks : ThreadSerialize(i)
  \/ \E i \in 1..NumTasks : ThreadCanonical(i)
  \/ \E i \in 1..NumTasks : ThreadSign(i)
  \/ \E i \in 1..NumTasks : ThreadSend(i)

SpecThreads == InitThreads /\ [][NextThreads]_vars

(***************************************************************************)
(* deleteVikingDBCollection.py and deleteVikingDBIndex.py: the dialog of   *)
(* delete_collection_test and delete_index_test, one action for the lines  *)
(* between two input() calls, and the Delete call that follows it.  The    *)
(* lines the user typed are kept in arg.params as they were typed.         *)
(***************************************************************************)
DeleteScripts == {"deleteVikingDBCollection", "deleteVikingDBIndex"}

DeleteVikingdbCollection == <<"D", "e", "l", "e", "t", "e", "V", "i", "k", "i", "n", "g", "d", "b", "C", "o", "l", "l", "e", "c", "t", "i", "o", "n">>

DeleteVikingdbIndex == <<"D", "e", "l", "e", "t", "e", "V", "i", "k", "i", "n", "g", "d", "b", "I", "n", "d", "e", "x">>

\* str.lower() of one character
lower_char(c) == IF ord(c) >= 65 /\ ord(c) <= 90 THEN Ascii[ord(c) + 32 - 31] ELSE c

\* str.lower()
str_lower(s) == [i \in 1..Len(s) |-> lower_char(s[i])]

\* what the user may type at "Use CollectionName (y) or ResourceId (n)?"
UseNameLines == { <<>>, <<"y">>, <<"N">>, <<" ", "n">> }

\* what the user may type where a name is asked for or is to be repeated
NameLines == { <<>>, <<" ">>, <<"c">>, <<" ", "c">>, <<"d">> }

\* what the user may type where the phrase is asked for
PhraseLines ==
  { <<>>,
    <<"DELETE", " ", "FOREVER">>,
    <<"DELETE", " ", "FOREVER", " ">>,
    <<"delete", " ", "forever">>,
    <<"DELETE", " ", "INDEX", " ", "FOREVER">>,
    <<" ", "DELETE", " ", "INDEX", " ", "FOREVER">> }

\* the phrase the script compares confirm2 with
DeletePhrase(s) ==
  IF s = "deleteVikingDBCollection" THEN <<"DELETE", " ", "FOREVER">>
  ELSE <<"DELETE", " ", "INDEX", " ", "FOREVER">>

\* input(prompt).strip()
input_strip(line) == str_strip(line)

\* typed is accepted when the expected text starts with it
differs_unless_prefix(typed, expected) ==
  ~(Len(typed) <= Len(expected) /\ Prefix(expected, Len(typed)) = typed)

\* confirm != expected
differs(typed, expected) == typed # expected

\* a text as a JSON string
json_string(t) == <<"\"">> \o t \o <<"\"">>

\* use_name = input(...).strip().lower() != "n"
use_name(lines) == str_lower(input_strip(lines[1])) # <<"n">>

\* body = {"ProjectName": PROJECT_NAME, **identifier} of delete_collection_test,
\* {"ProjectName", "CollectionName", "IndexName"} of delete_index_test
delete_body(s, lines) ==
  IF s = "deleteVikingDBCollection"
  THEN Some(<< Item(<<"ProjectName">>, Scalar(<<"\"AIAnimation\"">>)),
               Item(IF use_name(lines) THEN <<"CollectionName">> ELSE <<"ResourceId">>,
                    Scalar(json_string(input_strip(lines[2])))) >>)
  ELSE Some(<< Item(<<"ProjectName">>, Scalar(<<"\"AIAnimation\"">>)),
               Item(<<"CollectionName">>, Scalar(json_string(input_strip(lines[1])))),
               Item(<<"IndexName">>, Scalar(json_string(input_strip(lines[2])))) >>)

InitDelete ==
  /\ env \in [AK : {Some(<<"AKTEST">>)}, SK : {None, Some(<<"SKTEST">>)}]
  /\ script \in DeleteScripts
  /\ pc = "import"
  /\ now = StartClock
  /\ call = NoCall
  /\ prev = NoCall
  /\ resp = NoResp
  /\ outcome = NoOutcome
  /\ fn = NoFn
  /\ result = NoOutcome
  /\ nsigned = 0
  /\ nsent = 0
  /\ arg = NoArg
  /\ ret = <<>>
  /\ tasks = <<>>

\* if not AK or not SK: raise ValueError; otherwise __main__ enters the test
\* function, which prints the warning and waits at its first prompt
DeleteImport ==
  /\ pc = "import" /\ script \in DeleteScripts
  /\ IF ~truthy(AK) \/ ~truthy(SK)
     THEN /\ pc' = "aborted"
          /\ result' = Raise(<<"ValueError">>, <<"AK or SK missing in .env">>)
          /\ UNCHANGED arg
     ELSE /\ pc' = "prompt"
          /\ arg' = [f |-> IF script = "deleteVikingDBCollection" THEN "delete_collection_test"
                           ELSE "delete_index_test",
                     params |-> <<>>, body |-> None]
          /\ UNCHANGED result
  /\ UNCHANGED <<ret, tasks, env, script, now, call, prev, resp, outcome, fn, nsigned, nsent>>

\* the user's line is read; the function goes on to the next prompt, or
\* prints why it stops and returns
Typed(line, stops) ==
  /\ arg' = [arg EXCEPT !.params = Append(arg.params, line)]
  /\ IF stops
     THEN pc' = "idle" /\ result' = ReturnNone
     ELSE pc' = (IF Len(arg.params) = 3 THEN "confirmed" ELSE "prompt") /\ UNCHANGED result
  /\ UNCHANGED <<ret, tasks, env, script, now, call, prev, resp, outcome, fn, nsigned, nsent>>

\* delete_collection_test: use_name = input(...).strip().lower() != "n"
AskUseName ==
  /\ pc = "prompt" /\ script = "deleteVikingDBCollection" /\ Len(arg.params) = 0
  /\ \E line \in UseNameLines : Typed(line, FALSE)

\* delete_index_test: collection_name = input(...).strip(); if not collection_name: return
AskCollectionName ==
  /\ pc = "prompt" /\ script = "deleteVikingDBIndex" /\ Len(arg.params) = 0
  /\ \E line \in NameLines : Typed(line, input_strip(line) = <<>>)

\* collection_name / resource_id / index_name = input(...).strip(); if empty: return
AskTarget ==
  /\ pc = "prompt" /\ Len(arg.params) = 1
  /\ \E line \in NameLines : Typed(line, input_strip(line) = <<>>)

\* confirm1 = input(...).strip(); if confirm1 != expected: return
AskConfirm1 ==
  /\ pc = "prompt" /\ Len(arg.params) = 2
  /\ \E line \in NameLines : Typed(line, differs(input_strip(line), input_strip(arg.params[2])))

\* confirm2 = input(...).strip(); if confirm2 != "DELETE FOREVER": return
AskConfirm2 ==
  /\ pc = "prompt" /\ Len(arg.params) = 3
  /\ \E line \in PhraseLines : Typed(line, differs(input_strip(line), DeletePhrase(script)))

\* body = {...}; result = call_control_plane("DeleteVikingdb...", body), up to
\* the hand-over to the transport
DeleteSend ==
  /\ pc = "confirmed"
  /\ Invoke(call_control_plane(IF script = "deleteVikingDBCollection" THEN DeleteVikingdbCollection
                               ELSE DeleteVikingdbIndex,
                               delete_body(script, arg.params), utcnow))
  /\ fn' = NoFn

\* the response is printed, or except Exception prints the error: the test
\* function returns None either way
DeleteReturn ==
  /\ pc = "returned" /\ script \in DeleteScripts
  /\ result' = ReturnNone
  /\ pc' = "idle"
  /\ UNCHANGED <<arg, ret, tasks, env, script, now, call, prev, resp, outcome, fn, nsigned, nsent>>

NextDelete ==
  \/ DeleteImport
  \/ AskUseName
  \/ AskCollectionName
  \/ AskTarget
  \/ AskConfirm1
  \/ AskConfirm2
  \/ DeleteSend
  \/ Respond
  \/ TransportError
  \/ Complete
  \/ DeleteReturn

SpecDelete == InitDelete /\ [][NextDelete]_vars

(***************************************************************************)
(* list_all_collections and list_all_indexes against a service that        *)
(* answers every page request.  arg holds what the service is: "paged", it *)
(* holds the items 1..n and answers page p with the p-th slice and         *)
(* TotalCount = n; "any", it reports the same TotalCount every time and    *)
(* answers with any number of items.  ret holds the page numbers asked     *)
(* for, in the order they were asked.                                      *)
(***************************************************************************)
\* page requests one run may make in the model
MaxPages == MaxItems + 2

\* slice p of the items 1..n, size items a slice
PagedAnswer(n, p, size) ==
  [has_result |-> TRUE,
   items |-> IF p < 1 \/ size < 1 \/ ((p - 1) * size) >= n THEN <<>>
             ELSE [i \in 1..((IF (p * size) < n THEN p * size ELSE n) - ((p - 1) * size))
                     |-> ((p - 1) * size) + i],
   total |-> n, fields |-> <<>>, message |-> <<>>]

\* the answers of a service that reports TotalCount = n and sends k items
AnyAnswers(n, p) ==
  { [has_result |-> TRUE, items |-> [i \in 1..k |-> p], total |-> n,
     fields |-> <<>>, message |-> <<>>] : k \in 0..2 }

InitPaging ==
  /\ env = [AK |-> Some(<<"AKTEST">>), SK |-> Some(<<"SKTEST">>)]
  /\ script = "list"
  /\ pc = "idle"
  /\ now = StartClock
  /\ call = NoCall
  /\ prev = NoCall
  /\ resp = NoResp
  /\ outcome = NoOutcome
  /\ fn = NoFn
  /\ result = NoOutcome
  /\ nsigned = 0
  /\ nsent = 0
  /\ arg \in { [f |-> k, params |-> <<n>>, body |-> None] : k \in {"paged", "any"}, n \in 0..MaxItems }
  /\ ret = <<>>
  /\ tasks = <<>>

\* list_all_collections() or list_all_indexes(page_size=...) is called
PagingBegin ==
  /\ pc = "idle" /\ fn.name = "none"
  /\ \/ Begin(list_all_collections_start, "ready")
     \/ \E size \in {1, 2, 50} : Begin(list_all_indexes_start(FALSE, size), "ready")

\* data = call_api(action, {..., "PageNumber": page}), up to the transport
PageRequest ==
  /\ pc = "ready" /\ nsent < MaxPages
  /\ LET c == call_api(fn.action, page_body(fn), utcnow)
     IN /\ call' = [c EXCEPT !.t = now]
        /\ ret' = Append(ret, parse_int(Get(c.body.v, <<"PageNumber">>).v[1]))
  /\ prev' = call
  /\ nsigned' = nsigned + 1
  /\ nsent' = nsent + 1
  /\ pc' = "sent"
  /\ UNCHANGED <<arg, tasks, env, script, now, resp, outcome, fn, result>>

\* the service answers the page asked for with 200, and call_api returns the JSON
PageRespond ==
  /\ pc = "sent" /\ arg.f \in {"paged", "any"}
  /\ LET p == parse_int(Get(call.body.v, <<"PageNumber">>).v[1])
         size == parse_int(Get(call.body.v, <<"PageSize">>).v[1])
     IN \E payload \in (IF arg.f = "paged" THEN {PagedAnswer(arg.params[1], p, size)}
                        ELSE AnyAnswers(arg.params[1], p)) :
          /\ resp' = [status_code |-> 200, text |-> <<"{\"Result\":...}">>, is_json |-> TRUE,
                      payload |-> payload]
          /\ outcome' = call_api_result(call.caller, resp')
  /\ pc' = "returned"
  /\ UNCHANGED <<arg, ret, tasks, env, script, now, call, prev, fn, result, nsigned, nsent>>

NextPaging ==
  \/ PagingBegin
  \/ PageRequest
  \/ PageRespond
  \/ ListPage

SpecPaging == InitPaging /\ [][NextPaging]_vars

\* the position a step of NextPaging leaves and the one it reaches
PagingAdvance ==
  \/ pc = "idle" /\ fn.name = "none" /\ pc' = "ready"
  \/ pc = "ready" /\ nsent < MaxPages /\ pc' = "sent"
  \/ pc = "sent" /\ pc' = "returned"
  \/ pc = "returned" /\ pc' \in {"ready", "idle"}

\* the process is scheduled and the service answers: a step that can be taken
\* is not put off for ever
SpecPagingLive == SpecPaging /\ WF_pc(PagingAdvance)

(***************************************************************************)
(* update_index of update.py and updateVikingDBIndex.py called once, its   *)
(* arguments kept in arg.params[1] and the line typed at its prompt in     *)
(* arg.params[2]                                                           *)
(***************************************************************************)
\* the argument lists of update_index with the ends of each range, a
\* shard_count without a policy, and an empty collection_name
UpdateIndexEdgeArgs ==
  UpdateIndexArgs \cup
  { [NoChange EXCEPT !.cpu_quota = SomeInt(1)],
    [NoChange EXCEPT !.cpu_quota = SomeInt(10240)],
    [NoChange EXCEPT !.shard_count = SomeInt(0)],
    [NoChange EXCEPT !.shard_count = SomeInt(256)],
    [NoChange EXCEPT !.shard_policy = Some(<<"auto">>), !.shard_count = SomeInt(257)],
    [NoChange EXCEPT !.collection_name = Some(<<>>), !.new_description = Some(<<"\"HNSW index\"">>)],
    [NoChange EXCEPT !.cpu_quota = SomeInt(0), !.index_name = <<>>] }

InitUpdateIndex ==
  /\ env \in [AK : {Some(<<"AKTEST">>)}, SK : {None, Some(<<"SKTEST">>)}]
  /\ script = "update"
  /\ pc = "import"
  /\ now = StartClock
  /\ call = NoCall
  /\ prev = NoCall
  /\ resp = NoResp
  /\ outcome = NoOutcome
  /\ fn = NoFn
  /\ result = NoOutcome
  /\ nsigned = 0
  /\ nsent = 0
  /\ arg = NoArg
  /\ ret = <<>>
  /\ tasks = <<>>

\* update_index(...) is called: the checks, the body, and the prompt or the end
UpdateIndexCalled ==
  /\ pc = "idle" /\ arg.f = "none"
  /\ \E a \in UpdateIndexEdgeArgs :
       /\ arg' = [f |-> "update_index", params |-> <<a>>, body |-> None]
       /\ IF update_index_validate(a).kind # "none"
          THEN /\ fn' = [NoFn EXCEPT !.name = "update_index"]
               /\ pc' = "idle"
               /\ result' = update_index_validate(a)
          ELSE /\ fn' = [NoFn EXCEPT !.name = "update_index", !.action = UpdateVikingdbIndex,
                           !.body = update_index_body(a)]
               /\ pc' = "confirm"
               /\ result' = NoOutcome
  /\ UNCHANGED <<ret, tasks, env, script, now, call, prev, resp, outcome, nsigned, nsent>>

\* confirm = input("Type 'YES' to send update request: ").strip().upper()
UpdateIndexConfirm ==
  /\ pc = "confirm" /\ arg.f = "update_index"
  /\ \E typed \in TypedInputs :
       /\ arg' = [arg EXCEPT !.params = Append(arg.params, typed)]
       /\ IF str_upper(str_strip(typed)) # <<"Y", "E", "S">>
          THEN pc' = "idle" /\ result' = ReturnNone
          ELSE pc' = "ready" /\ UNCHANGED result
  /\ UNCHANGED <<ret, tasks, env, script, now, call, prev, resp, outcome, fn, nsigned, nsent>>

NextUpdateIndex ==
  \/ Import
  \/ UpdateIndexCalled
  \/ UpdateIndexConfirm
  \/ FnCall
  \/ Respond
  \/ TransportError
  \/ Complete
  \/ FnRaised
  \/ FnReturnResponse

SpecUpdateIndex == InitUpdateIndex /\ [][NextUpdateIndex]_vars

(***************************************************************************)
(* update_collection_description of update.py against a service whose      *)
(* collection other clients change as well.  tasks holds the collection    *)
(* the service keeps: its Fields and Description now, and its Fields       *)
(* immediately before and after the UpdateVikingdbCollection request of    *)
(* this process was applied.  The service replaces Description and Fields  *)
(* by those of the request, as the comment on line 155 has it.             *)
(***************************************************************************)
\* changes other clients make to the collection during one run
MaxEdits == 1

\* the field another client adds
OtherField == <<"\"caption\"">>

InitCollection ==
  /\ env = [AK |-> Some(<<"AKTEST">>), SK |-> Some(<<"SKTEST">>)]
  /\ script = "update"
  /\ pc = "idle"
  /\ now = StartClock
  /\ call = NoCall
  /\ prev = NoCall
  /\ resp = NoResp
  /\ outcome = NoOutcome
  /\ fn = NoFn
  /\ result = NoOutcome
  /\ nsigned = 0
  /\ nsent = 0
  /\ arg = NoArg
  /\ ret = <<>>
  /\ tasks = [fields |-> ServerFields, description |-> <<"\"old description\"">>,
              applied |-> FALSE, before |-> <<>>, after |-> <<>>, edits |-> 0]

\* another client adds a field to the collection, or drops its last field
OtherClientEdits ==
  /\ pc # "import" /\ tasks.edits < MaxEdits
  /\ \/ tasks' = [tasks EXCEPT !.fields = Append(@, OtherField), !.edits = @ + 1]
     \/ /\ tasks.fields # <<>>
        /\ tasks' = [tasks EXCEPT !.fields = DropLast(@), !.edits = @ + 1]
  /\ UNCHANGED <<arg, ret, env, script, pc, now, call, prev, resp, outcome, fn, result, nsigned, nsent>>

\* the service answers GetVikingdbCollection with the collection as it is
ServiceAnswersGet ==
  /\ pc = "sent" /\ Get(call.query, ActionKey).v[1] = GetVikingdbCollection
  /\ resp' = [status_code |-> 200, text |-> <<"{\"Result\":...}">>, is_json |-> TRUE,
              payload |-> [has_result |-> TRUE, items |-> <<>>, total |-> 0,
                           fields |-> tasks.fields, message |-> <<>>]]
  /\ pc' = "responded"
  /\ UNCHANGED <<arg, ret, tasks, env, script, now, call, prev, outcome, fn, result, nsigned, nsent>>

\* the service applies UpdateVikingdbCollection: Description and Fields become
\* those of the request
ServiceAppliesUpdate ==
  /\ pc = "sent" /\ Get(call.query, ActionKey).v[1] = UpdateVikingdbCollection
  /\ tasks' = [tasks EXCEPT !.applied = TRUE,
                            !.before = tasks.fields,
                            !.fields = Get(call.body.v, <<"Fields">>).v,
                            !.after = Get(call.body.v, <<"Fields">>).v,
                            !.description = Get(call.body.v, <<"Description">>).v[1]]
  /\ resp' = [status_code |-> 200, text |-> <<"{\"Result\":...}">>, is_json |-> TRUE,
              payload |-> [has_result |-> TRUE, items |-> <<>>, total |-> 0,
                           fields |-> <<>>, message |-> <<"success">>]]
  /\ pc' = "responded"
  /\ UNCHANGED <<arg, ret, env, script, now, call, prev, outcome, fn, result, nsigned, nsent>>

NextCollection ==
  \/ BeginUpdateCollectionDescription
  \/ FnCall
  \/ ServiceAnswersGet
  \/ ServiceAppliesUpdate
  \/ OtherClientEdits
  \/ Complete
  \/ UpdateCollectionGotCurrent
  \/ Confirm
  \/ FnReturnResponse

SpecCollection == InitCollection /\ [][NextCollection]_vars

(***************************************************************************)
(* delete.py: delete_data, and fetchDataIn(Collection).py: fetch_by_id.    *)
(* arg.params holds the lines typed at the prompts so far.                 *)
(***************************************************************************)
DataScripts == {"delete", "fetchDataIn(Collection)"}

FetchPath == <<"/", "api/vikingdb/data/fetch_in_collection">>

\* if len(ids) > 100: ids = ids[:100]
IdLimit == 100

ImageCollection == <<"I", "m", "a", "g", "e", "C", "o", "l", "l", "e", "c", "t", "i", "o", "n">>

DELETEALL == <<"D", "E", "L", "E", "T", "E", "A", "L", "L">>

YES == <<"Y", "E", "S">>

\* what the user may type at "Collection name [ImageCollection]: "
CollectionLines == { <<>>, <<" ", "c">> }

\* what the user may type at "Type 'DELETEALL' to confirm: "
DeleteAllLines ==
  { <<>>, DELETEALL, DELETEALL \o <<" ">>, str_lower(DELETEALL), <<"D", "E", "L", "E", "T", "E">>,
    <<"Y", "E", "S">> }

\* more IDs than one request takes: "1,2,...,101"
ManyIds == [k \in 1..(2 * IdLimit + 1) |-> IF k % 2 = 1 THEN ToString((k + 1) \div 2) ELSE ","]

\* what the user may type where IDs are asked for
IdLines ==
  { <<>>, <<" ">>, <<"a">>, <<" ", "a", " ", ",", "b", " ">>, <<"b", ",", "a">>,
    <<"a", ",", ",", "b", ",">>, <<",">>, <<" ", ",", " ", ",">>, ManyIds }

\* s.split(sep): the parts between the occurrences of sep
str_split(s, sep) ==
  LET at == {i \in 1..Len(s) : s[i] = sep}
      cut(k) == IF k = 0 THEN 0
                ELSE IF k > Cardinality(at) THEN Len(s) + 1
                ELSE CHOOSE i \in at : Cardinality({j \in at : j < i}) = k - 1
  IN [k \in 1..(Cardinality(at) + 1) |-> SubSeq(s, cut(k - 1) + 1, cut(k) - 1)]

\* [x.strip() for x in parts if x.strip()]
stripped_entries(parts) ==
  SelectSeq([i \in 1..Len(parts) |-> str_strip(parts[i])], LAMBDA x : x # <<>>)

\* ids = [x.strip() for x in id_input.split(",") if x.strip()]
parse_ids(id_input) == stripped_entries(str_split(id_input, ","))

\* ids[:n]
first_ids(ids, n) == IF Len(ids) > n THEN SubSeq(ids, 1, n) ELSE ids

\* collection = input(...).strip() or "ImageCollection"
collection_or_default(line) ==
  IF input_strip(line) = <<>> THEN ImageCollection ELSE input_strip(line)

\* delete_all = input(...).strip().upper() == "YES"
delete_all(lines) == str_upper(input_strip(lines[2])) = YES

\* the body of delete_data, with the IDs on top of del_all
delete_data_body_keeps_ids(lines) ==
  Some(<< Item(<<"collection_name">>, Scalar(json_string(collection_or_default(lines[1])))) >>
       \o (IF delete_all(lines) THEN << Item(<<"del_all">>, Scalar(<<"true">>)) >> ELSE <<>>)
       \o << Item(<<"ids">>,
                  List([i \in 1..Len(first_ids(parse_ids(input_strip(lines[3])), IdLimit)) |->
                          json_string(first_ids(parse_ids(input_strip(lines[3])), IdLimit)[i])])) >>)

\* body = {"collection_name": collection, "del_all": True}, or
\* body = {"collection_name": collection, "ids": ids} with ids cut to the first 100
delete_data_body(lines) ==
  LET ids == first_ids(parse_ids(input_strip(lines[3])), IdLimit)
  IN Some(<< Item(<<"collection_name">>, Scalar(json_string(collection_or_default(lines[1])))),
             IF delete_all(lines)
             THEN Item(<<"del_all">>, Scalar(<<"true">>))
             ELSE Item(<<"ids">>, List([i \in 1..Len(ids) |-> json_string(ids[i])])) >>)

\* body = {"collection_name", "ids", "output_fields"} of fetch_by_id
fetch_by_id_body(lines) ==
  LET ids == parse_ids(input_strip(lines[2]))
  IN Some(<< Item(<<"collection_name">>, Scalar(json_string(collection_or_default(lines[1])))),
             Item(<<"ids">>, List([i \in 1..Len(ids) |-> json_string(ids[i])])),
             Item(<<"output_fields">>,
                  List(<< <<"\"id\"">>, <<"\"image\"">>, <<"\"created_at\"">> >>)) >>)

InitData ==
  /\ env \in [AK : {Some(<<"AKTEST">>)}, SK : {Some(<<"SKTEST">>)}]
  /\ script \in DataScripts
  /\ pc = "menu"
  /\ now = StartClock
  /\ call = NoCall
  /\ prev = NoCall
  /\ resp = NoResp
  /\ outcome = NoOutcome
  /\ fn = NoFn
  /\ result = NoOutcome
  /\ nsigned = 0
  /\ nsent = 0
  /\ arg = NoArg
  /\ ret = <<>>
  /\ tasks = <<>>

\* choice == "1": delete_data() or fetch_by_id() is entered and waits at its
\* first prompt
DataBegin ==
  /\ pc = "menu"
  /\ pc' = "prompt"
  /\ arg' = [f |-> IF script = "delete" THEN "delete_data" ELSE "fetch_by_id",
             params |-> <<>>, body |-> None]
  /\ UNCHANGED <<result, ret, tasks, env, script, now, call, prev, resp, outcome, fn, nsigned, nsent>>

\* the user's line is read; the function goes on to the next prompt, goes on
\* to the request when that was its last prompt, or prints why it stops and
\* returns
DataTyped(line, stops, last) ==
  /\ arg' = [arg EXCEPT !.params = Append(arg.params, line)]
  /\ IF stops
     THEN pc' = "idle" /\ result' = ReturnNone
     ELSE pc' = (IF last THEN "confirmed" ELSE "prompt") /\ UNCHANGED result
  /\ UNCHANGED <<ret, tasks, env, script, now, call, prev, resp, outcome, fn, nsigned, nsent>>

\* collection = input("Collection name [ImageCollection]: ").strip() or "ImageCollection"
AskDataCollection ==
  /\ pc = "prompt" /\ Len(arg.params) = 0
  /\ \E line \in CollectionLines : DataTyped(line, FALSE, FALSE)

\* delete_all = input("Delete ALL data in collection? (YES/NO) [NO]: ").strip().upper() == "YES"
AskDeleteAll ==
  /\ pc = "prompt" /\ arg.f = "delete_data" /\ Len(arg.params) = 1
  /\ \E line \in TypedInputs : DataTyped(line, FALSE, FALSE)

\* confirm = input("Type 'DELETEALL' to confirm: ").strip(); if confirm != "DELETEALL": return
AskDeleteAllPhrase ==
  /\ pc = "prompt" /\ arg.f = "delete_data" /\ Len(arg.params) = 2 /\ delete_all(arg.params)
  /\ \E line \in DeleteAllLines : DataTyped(line, differs(input_strip(line), DELETEALL), FALSE)

\* id_input = input(...).strip(); if not id_input: return
AskIds ==
  /\ pc = "prompt"
  /\ \/ arg.f = "delete_data" /\ Len(arg.params) = 2 /\ ~delete_all(arg.params)
     \/ arg.f = "fetch_by_id" /\ Len(arg.params) = 1
  /\ \E line \in IdLines : DataTyped(line, input_strip(line) = <<>>, arg.f = "fetch_by_id")

\* confirm = input("Type 'YES' to proceed with deletion: ").strip().upper()
\* if confirm != "YES": return
AskProceed ==
  /\ pc = "prompt" /\ arg.f = "delete_data" /\ Len(arg.params) = 3
  /\ \E line \in TypedInputs : DataTyped(line, str_upper(input_strip(line)) # YES, TRUE)

\* resp = call_dataplane(body=body, path=...), up to the hand-over to the transport
DataSend ==
  /\ pc = "confirmed"
  /\ IF arg.f = "delete_data"
     THEN Invoke(call_dataplane(delete_data_body(arg.params), DeletePath, utcnow))
     ELSE Invoke(call_dataplane(fetch_by_id_body(arg.params), FetchPath, utcnow))
  /\ fn' = NoFn

\* the response is printed, or except Exception prints the error: the
\* function returns None either way
DataReturn ==
  /\ pc = "returned" /\ script \in DataScripts
  /\ result' = ReturnNone
  /\ pc' = "idle"
  /\ UNCHANGED <<arg, ret, tasks, env, script, now, call, prev, resp, outcome, fn, nsigned, nsent>>

NextData ==
  \/ DataBegin
  \/ AskDataCollection
  \/ AskDeleteAll
  \/ AskDeleteAllPhrase
  \/ AskIds
  \/ AskProceed
  \/ DataSend
  \/ Respond
  \/ TransportError
  \/ Complete
  \/ DataReturn

SpecData == InitData /\ [][NextData]_vars

(***************************************************************************)
(* task.py: the main menu and the functions it dispatches to.  ret holds   *)
(* the line typed at the menu, tasks the number of requests sent before    *)
(* it was typed.                                                           *)
(***************************************************************************)
CreateVikingdbTask == <<"C", "r", "e", "a", "t", "e", "V", "i", "k", "i", "n", "g", "d", "b", "T", "a", "s", "k">>

GetVikingdbTask == <<"G", "e", "t", "V", "i", "k", "i", "n", "g", "d", "b", "T", "a", "s", "k">>

DeleteVikingdbTask == <<"D", "e", "l", "e", "t", "e", "V", "i", "k", "i", "n", "g", "d", "b", "T", "a", "s", "k">>

UpdateVikingdbTask == <<"U", "p", "d", "a", "t", "e", "V", "i", "k", "i", "n", "g", "d", "b", "T", "a", "s", "k">>

\* what the user may type at "Choose [1,2,3,0]: "
MenuLines ==
  { <<"0">>, <<"1">>, <<" ", "2">>, <<"3">>, <<"4">>, <<"5">>, <<"6">>, <<"1", "2">>, <<>> }

\* what the user may type where a collection name or a task id is asked for
TaskNameLines == { <<>>, <<"t">> }

\* what the user may type where a word confirms the request
TaskConfirmLines ==
  { <<>>, <<"C", "R", "E", "A", "T", "E">>, <<" ">> \o str_lower(<<"C", "R", "E", "A", "T", "E">>), <<"D", "E", "L", "E", "T", "E">>, str_lower(<<"C", "O", "N", "F", "I", "R", "M">>) }

\* the if / elif chain of the menu: the function a choice calls
menu_function(choice) ==
  CASE choice = <<"1">> -> "list_vikingdb_tasks"
    [] choice = <<"2">> -> "create_delete_nothing_task"
    [] choice = <<"3">> -> "get_vikingdb_task"
    [] choice = <<"4">> -> "delete_vikingdb_task"
    [] choice = <<"5">> -> "update_vikingdb_task"
    [] choice = <<"0">> -> "break"
    [] OTHER -> "Invalid choice"

\* body of list_vikingdb_tasks with the defaults for project, page and size
list_tasks_body(collection) ==
  Some(<< Item(<<"ProjectName">>, Scalar(<<"\"AIAnimation\"">>)),
          Item(<<"PageNumber">>, Scalar(<<"1">>)),
          Item(<<"PageSize">>, Scalar(<<"1", "0">>)) >>
       \o (IF collection = <<>> THEN <<>>
           ELSE << Item(<<"CollectionName">>, Scalar(json_string(collection))) >>))

\* body of create_delete_nothing_task
create_delete_nothing_body(collection) ==
  Some(<< Item(<<"ProjectName">>, Scalar(<<"\"AIAnimation\"">>)),
          Item(<<"CollectionName">>, Scalar(json_string(collection))),
          Item(<<"TaskType">>, Scalar(<<"\"filter_delete\"">>)),
          Item(<<"TaskConfig">>, Scalar(<<"{\"FilterConds\":[...],\"NeedConfirm\":true}">>)) >>)

\* body of get_vikingdb_task, delete_vikingdb_task and update_vikingdb_task
task_id_body(task_id) == Some(<< Item(<<"TaskId">>, Scalar(json_string(task_id))) >>)

\* list_body of the status check that follows a created task
task_status_body ==
  Some(<< Item(<<"ProjectName">>, Scalar(<<"\"AIAnimation\"">>)),
          Item(<<"TaskId">>, Scalar(<<"\"task-id\"">>)) >>)

InitTask ==
  /\ env \in [AK : {Some(<<"AKTEST">>)}, SK : {Some(<<"SKTEST">>)}]
  /\ script = "task"
  /\ pc = "menu"
  /\ now = StartClock
  /\ call = NoCall
  /\ prev = NoCall
  /\ resp = NoResp
  /\ outcome = NoOutcome
  /\ fn = NoFn
  /\ result = NoOutcome
  /\ nsigned = 0
  /\ nsent = 0
  /\ arg = NoArg
  /\ ret = <<>>
  /\ tasks = 0

\* choice = input("Choose [1,2,3,0]: ").strip() and the if / elif chain
MenuChoose ==
  /\ pc = "menu" /\ nsent < MaxCalls
  /\ \E line \in MenuLines :
       /\ ret' = <<line>>
       /\ arg' = [f |-> menu_function(input_strip(line)), params |-> <<>>, body |-> None]
       /\ pc' = CASE menu_function(input_strip(line)) = "break" -> "exited"
                  [] menu_function(input_strip(line)) = "Invalid choice" -> "menu"
                  [] OTHER -> "prompt"
  /\ tasks' = nsent
  /\ UNCHANGED <<result, env, script, now, call, prev, resp, outcome, fn, nsigned, nsent>>

\* the function stops before its request and the menu is shown again
BackToMenu(lines) ==
  /\ pc' = "menu"
  /\ arg' = [arg EXCEPT !.params = lines]
  /\ result' = ReturnNone
  /\ UNCHANGED <<ret, tasks, env, script, now, call, prev, resp, outcome, fn, nsigned, nsent>>

\* the function's request, up to the hand-over to the transport
TaskRequest(action, body) ==
  /\ Invoke(call_control_plane(action, body, utcnow)) /\ fn' = NoFn

\* list_vikingdb_tasks(): six prompts, then ListVikingdbTask
ListVikingdbTasks ==
  /\ pc = "prompt" /\ arg.f = "list_vikingdb_tasks"
  /\ \E line \in TaskNameLines :
       TaskRequest(ListVikingdbTask, list_tasks_body(input_strip(line)))

\* create_delete_nothing_task(): collection, "Type 'CREATE'", then CreateVikingdbTask
CreateDeleteNothingTask ==
  /\ pc = "prompt" /\ arg.f = "create_delete_nothing_task"
  /\ \E line \in TaskNameLines, confirm \in TaskConfirmLines :
       IF str_upper(input_strip(confirm)) # <<"C", "R", "E", "A", "T", "E">>
       THEN BackToMenu(<<line, confirm>>)
       ELSE TaskRequest(CreateVikingdbTask,
                        create_delete_nothing_body(collection_or_default(line)))

\* get_vikingdb_task(): task id, then GetVikingdbTask
GetTask ==
  /\ pc = "prompt" /\ arg.f = "get_vikingdb_task"
  /\ \E line \in TaskNameLines :
       IF input_strip(line) = <<>>
       THEN BackToMenu(<<line>>)
       ELSE TaskRequest(GetVikingdbTask, task_id_body(input_strip(line)))

\* delete_vikingdb_task(): task id, "Type 'DELETE'", then DeleteVikingdbTask
DeleteTask ==
  /\ pc = "prompt" /\ arg.f = "delete_vikingdb_task"
  /\ \E line \in TaskNameLines, confirm \in TaskConfirmLines :
       IF input_strip(line) = <<>> \/ str_upper(input_strip(confirm)) # <<"D", "E", "L", "E", "T", "E">>
       THEN BackToMenu(<<line, confirm>>)
       ELSE TaskRequest(DeleteVikingdbTask, task_id_body(input_strip(line)))

\* update_vikingdb_task(): task id, "Type 'CONFIRM'", then UpdateVikingdbTask
UpdateTask ==
  /\ pc = "prompt" /\ arg.f = "update_vikingdb_task"
  /\ \E line \in TaskNameLines, confirm \in TaskConfirmLines :
       IF input_strip(line) = <<>> \/ str_upper(input_strip(confirm)) # <<"C", "O", "N", "F", "I", "R", "M">>
       THEN BackToMenu(<<line, confirm>>)
       ELSE TaskRequest(UpdateVikingdbTask, task_id_body(input_strip(line)))

\* the response is printed, or except Exception prints the error, and the
\* menu is shown again; create_delete_nothing_task first asks for the status
\* of the task when the response names one
TaskReturn ==
  /\ pc = "returned" /\ script = "task"
  /\ \/ /\ result' = ReturnNone
        /\ pc' = "menu"
        /\ UNCHANGED <<arg, ret, tasks, env, script, now, call, prev, resp, outcome, fn, nsigned, nsent>>
     \/ /\ arg.f = "create_delete_nothing_task" /\ nsent = tasks + 1
        /\ outcome.kind = "return" /\ outcome.payload.has_result
        /\ Invoke(call_control_plane(ListVikingdbTask, task_status_body, utcnow))
        /\ fn' = NoFn

NextTask ==
  \/ MenuChoose
  \/ ListVikingdbTasks
  \/ CreateDeleteNothingTask
  \/ GetTask
  \/ DeleteTask
  \/ UpdateTask
  \/ Respond
  \/ TransportError
  \/ Complete
  \/ TaskReturn

SpecTask == InitTask /\ [][NextTask]_vars

(***************************************************************************)
(* legacyTestingCode/test.py: bulk_upsert.  tasks holds the asyncio tasks  *)
(* of upsert_one in the order they were created and the value of the       *)
(* semaphore; ret holds the counts that were printed.                      *)
(***************************************************************************)
\* CONCURRENCY_LIMIT = 10
CONCURRENCY_LIMIT == 10

\* len(IMAGE_URLS), one more than the semaphore lets through
NumUrls == 11

\* a semaphore that never makes a task wait
semaphore_never_locked(value) == FALSE

\* asyncio.Semaphore.locked(): async with semaphore waits while it holds
semaphore_locked(value) == value = 0

\* success_count and len(failed) after the loop over results
upsert_counts(status) ==
  << Cardinality({i \in 1..Len(status) : status[i] = "ok"}),
     Cardinality({i \in 1..Len(status) : status[i] # "ok"}) >>

InitUpsert ==
  /\ env \in [AK : {Some(<<"AKTEST">>)}, SK : {Some(<<"SKTEST">>)}]
  /\ script = "test"
  /\ pc = "start"
  /\ now = StartClock
  /\ call = NoCall
  /\ prev = NoCall
  /\ resp = NoResp
  /\ outcome = NoOutcome
  /\ fn = NoFn
  /\ result = NoOutcome
  /\ nsigned = 0
  /\ nsent = 0
  /\ arg = NoArg
  /\ ret = <<>>
  /\ tasks = [status |-> <<>>, value |-> 0]

\* coll = await create_or_get_collection() raises: bulk_upsert ends there
CreateOrGetCollectionRaises ==
  /\ pc = "start"
  /\ pc' = "aborted"
  /\ result' = Raise(<<"VikingDBException">>, <<"create_or_get_collection">>)
  /\ UNCHANGED <<arg, ret, tasks, env, script, now, call, prev, resp, outcome, fn, nsigned, nsent>>

\* coll = await create_or_get_collection(); semaphore = asyncio.Semaphore(CONCURRENCY_LIMIT);
\* for url in IMAGE_URLS: asyncio.create_task(upsert_one(coll, url, semaphore));
\* bulk_upsert then waits in asyncio.gather
CreateTasks ==
  /\ pc = "start"
  /\ pc' = "gather"
  /\ tasks' = [status |-> [i \in 1..NumUrls |-> "created"], value |-> CONCURRENCY_LIMIT]
  /\ UNCHANGED <<arg, ret, result, env, script, now, call, prev, resp, outcome, fn, nsigned, nsent>>

\* the tasks that have not passed "async with semaphore", oldest first
NotEntered == {i \in 1..Len(tasks.status) : tasks.status[i] = "created"}

\* async with semaphore: the oldest task that has not entered takes the
\* semaphore, builds data and awaits coll.async_upsert_data(...)
UpsertEnter ==
  /\ pc = "gather" /\ NotEntered # {}
  /\ ~semaphore_locked(tasks.value)
  /\ LET i == CHOOSE k \in NotEntered : \A m \in NotEntered : k <= m
     IN tasks' = [status |-> [tasks.status EXCEPT ![i] = "in flight"], value |-> tasks.value - 1]
  /\ UNCHANGED <<arg, ret, result, pc, env, script, now, call, prev, resp, outcome, fn, nsigned, nsent>>

\* await coll.async_upsert_data(...) is over: return True, image_id, or
\* except Exception: return False, image_id, str(e); leaving the with block
\* releases the semaphore
UpsertLeave ==
  /\ pc = "gather"
  /\ \E i \in 1..Len(tasks.status), how \in {"ok", "failed"} :
       /\ tasks.status[i] = "in flight"
       /\ tasks' = [status |-> [tasks.status EXCEPT ![i] = how], value |-> tasks.value + 1]
  /\ UNCHANGED <<arg, ret, result, pc, env, script, now, call, prev, resp, outcome, fn, nsigned, nsent>>

\* results = await asyncio.gather(*tasks, return_exceptions=True) is over when
\* every task is done; the loop over results counts, and the counts are printed
GatherDone ==
  /\ pc = "gather"
  /\ \A i \in 1..Len(tasks.status) : tasks.status[i] \in {"ok", "failed"}
  /\ ret' = upsert_counts(tasks.status)
  /\ pc' = "reported"
  /\ result' = ReturnNone
  /\ UNCHANGED <<arg, tasks, env, script, now, call, prev, resp, outcome, fn, nsigned, nsent>>

NextUpsert ==
  \/ CreateOrGetCollectionRaises
  \/ CreateTasks
  \/ UpsertEnter
  \/ UpsertLeave
  \/ GatherDone

SpecUpsert == InitUpsert /\ [][NextUpsert]_vars

(***************************************************************************)
(* Properties                                                              *)
(***************************************************************************)
\* the lines of a text
RECURSIVE Lines(_)
Lines(s) ==
  IF \A i \in 1..Len(s) : s[i] # "\n" THEN <<s>>
  ELSE LET k == CHOOSE i \in 1..Len(s) : s[i] = "\n" /\ \A j \in 1..(i - 1) : s[j] # "\n"
       IN <<Prefix(s, k - 1)>> \o Lines(IF k = Len(s) THEN <<>> ELSE SubSeq(s, k + 1, Len(s)))

LastLine(s) == Lines(s)[Len(Lines(s))]

\* the value written after "name:" in the header block of a canonical request
HeaderLineValue(canonical, name) ==
  LET ls == Lines(canonical)
      k == CHOOSE i \in 1..Len(ls) : Len(ls[i]) >= 2 /\ ls[i][1] = name /\ ls[i][2] = ":"
  IN IF Len(ls[k]) = 2 THEN <<>> ELSE SubSeq(ls[k], 3, Len(ls[k]))

\* sub in s
Contains(s, sub) ==
  \E i \in 0..(Len(s) - Len(sub)) : \A j \in 1..Len(sub) : s[i + j] = sub[j]

\* the callers that sign in the repository's own code
ApiCallers ==
  {"call_api", "call_control_plane", "call_dataplane", "call_vikingdb", "keyword_call_vikingdb", "request"}

\* the copies of call_api
CallApiFamily == ApiCallers \ {"request"}

\* C1: in every request an API caller of the repository sends, the string
\* handed to the transport as the body is the string whose SHA-256 the signer
\* wrote as X-Content-Sha256, in the header block and in the last line of the
\* canonical request; also with body = None in request().
C1_BodySentIsBodyHashed ==
  (call.wire.sent /\ call.caller \in ApiCallers) =>
    /\ call.body_hash = sha256_hex(call.wire.data)
    /\ HeaderLineValue(call.canonical_request, "x-content-sha256") = sha256_hex(call.wire.data)
    /\ LastLine(call.canonical_request) = sha256_hex(call.wire.data)

\* request() has sent a request with body = None: the empty string was hashed
\* and the empty string was sent
C1_Witness ==
  /\ call.wire.sent /\ call.caller = "request" /\ ~call.body.set
  /\ call.wire.data = <<>> /\ call.body_hash = sha256_hex(<<>>)
  /\ pc = "responded"

\* C2: every request sent by request() carries, for every extra_headers, the
\* Host, Content-Type, X-Date and X-Content-Sha256 written in the canonical
\* header block that was signed, and the Authorization the signer computed.
C2_TransmittedHeadersAreSigned ==
  (call.wire.sent /\ call.caller = "request") =>
    /\ Get(call.wire.headers, <<"Host">>) = HeaderLineValue(call.canonical_request, "host")
    /\ Get(call.wire.headers, <<"Content-Type">>) = HeaderLineValue(call.canonical_request, "content-type")
    /\ Get(call.wire.headers, <<"X-Date">>) = HeaderLineValue(call.canonical_request, "x-date")
    /\ Get(call.wire.headers, <<"X-Content-Sha256">>)
         = HeaderLineValue(call.canonical_request, "x-content-sha256")
    /\ Get(call.wire.headers, <<"Authorization">>) = call.authorization

\* C3: in every script, a missing access key or secret key ends the process
\* with a configuration error at start-up; nothing is signed and nothing is
\* sent with a key missing.
C3_MissingCredentialAborts ==
  (~truthy(AK) \/ ~truthy(SK)) =>
    /\ pc \in {"import", "aborted"}
    /\ nsigned = 0
    /\ nsent = 0

\* C4 as claimed: every API caller returns the parsed JSON on every 2xx status
\* and raises on every other status.
C4_ReturnsOn2xxRaisesOtherwise ==
  (pc = "returned" /\ resp # NoResp) =>
    IF resp.status_code >= 200 /\ resp.status_code < 300
    THEN outcome.kind = "return" /\ outcome.payload = resp.payload
    ELSE outcome.kind = "raise"

\* C4 as amended: a copy of call_api returns the parsed JSON only on status
\* 200, raises RuntimeError on every other status, other 2xx codes included,
\* and raises the JSON decoding error on a 200 whose body is no JSON;
\* request() and upsert_one never raise on a status: they return the status
\* code with the body for every status.
C4_ReturnsOn200Only ==
  (pc = "returned" /\ resp # NoResp) =>
    IF call.caller \in CallApiFamily
    THEN /\ (resp.status_code = 200 /\ resp.is_json) =>
              (outcome.kind = "return" /\ outcome.payload = resp.payload)
         /\ (resp.status_code = 200 /\ ~resp.is_json) =>
              (outcome.kind = "raise" /\ outcome.exc = <<"JSONDecodeError">>)
         /\ resp.status_code # 200 =>
              (outcome.kind = "raise" /\ outcome.exc = <<"RuntimeError">>)
    ELSE /\ outcome.kind = "return"
         /\ outcome.status = resp.status_code
         /\ outcome.text = resp.text

\* a copy of call_api has raised on a 201 whose body is JSON
C4_Witness ==
  /\ pc = "returned" /\ call.caller \in CallApiFamily
  /\ resp.status_code = 201 /\ resp.is_json
  /\ outcome.kind = "raise"

\* the functions C5 names
SwallowingFunctions ==
  {"list_all_indexes", "get_collection_details", "get_index_details", "update_index",
   "update_collection_description"}

\* C5: when the API caller raises inside list_all_indexes,
\* get_collection_details, get_index_details, update_index or
\* update_collection_description, that exception is what the function gives
\* its caller: never None, never the pages fetched so far.
C5_FailureReachesCaller ==
  (pc = "idle" /\ fn.name \in SwallowingFunctions /\ outcome.kind = "raise") =>
    (result.kind = "raise" /\ result.exc = outcome.exc)

\* C6: on a status that is not 2xx, what the API caller gives its caller
\* carries the text of the response body.
C6_ErrorCarriesBodyText ==
  (pc = "returned" /\ resp # NoResp /\ call.caller \in ApiCallers
     /\ ~(resp.status_code >= 200 /\ resp.status_code < 300)) =>
    \/ outcome.kind = "raise" /\ Contains(outcome.msg, resp.text)
    \/ outcome.kind = "return" /\ Contains(outcome.text, resp.text)

\* C7: a path that does not start with "/" is rejected before anything is
\* signed or sent.
C7_RelativePathRejected ==
  (call.caller \in ApiCallers /\ (call.path = <<>> \/ Head(call.path) # "/")) =>
    (~call.signed /\ ~call.wire.sent)

\* C8: a request to a data-plane path (any path but "/") is sent with neither
\* Action nor Version in its query, and a control-plane request is a POST to
\* "/" with both.
C8_ActionVersionOnlyOnControlPlane ==
  (call.wire.sent /\ call.caller \in ApiCallers) =>
    IF call.path # <<"/">>
    THEN ~HasKey(call.wire.params, ActionKey) /\ ~HasKey(call.wire.params, VersionKey)
    ELSE /\ call.method = <<"POST">>
         /\ HasKey(call.wire.params, ActionKey) /\ HasKey(call.wire.params, VersionKey)

\* C9: the X-Date, the date of the credential scope and the signing key of
\* every signed call come from the clock as read in that call (call.t); two
\* calls at different readings differ in X-Date, and across midnight in
\* scope and key.
C9_TimestampFreshPerCall ==
  /\ (call.signed /\ call.caller \in ApiCallers) =>
       /\ call.x_date = strftime(call.t)
       /\ call.short_date = Prefix(strftime(call.t), 8)
       /\ Prefix(call.credential_scope, 8) = Prefix(strftime(call.t), 8)
       /\ call.k_signing = signing_key(SK.v, Prefix(strftime(call.t), 8), REGION, SERVICE)
       /\ Contains(call.authorization, call.credential_scope)
  /\ (prev.signed /\ call.signed /\ prev.caller \in ApiCallers /\ call.caller \in ApiCallers
        /\ prev.t # call.t) =>
       /\ prev.x_date # call.x_date
       /\ (prev.t \div 86400) # (call.t \div 86400) =>
            (prev.credential_scope # call.credential_scope /\ prev.k_signing # call.k_signing)

\* two signed calls, the second one second later and on the next day
C9_Witness ==
  /\ prev.signed /\ call.signed /\ call.wire.sent
  /\ prev.t = StartClock /\ call.t = StartClock + 1
  /\ prev.short_date # call.short_date

\* prev and call are two signed runs of one caller
TwoSignedRuns ==
  /\ prev.signed /\ call.signed
  /\ prev.caller \in ApiCallers /\ call.caller = prev.caller

\* what two runs were given, the body and the clock reading aside
SameRequestLine(c, d) ==
  /\ c.method = d.method /\ c.path = d.path /\ c.host = d.host /\ c.query = d.query

\* C11: two signing runs that differ only in the body differ in
\* X-Content-Sha256 and in the signature, and two runs with equal bodies have
\* equal X-Content-Sha256 whatever else they were given.
C11_BodyDecidesContentHash ==
  TwoSignedRuns =>
    /\ (prev.body_str = call.body_str) => (prev.body_hash = call.body_hash)
    /\ (prev.body_str # call.body_str /\ prev.t = call.t /\ SameRequestLine(prev, call)) =>
         (prev.body_hash # call.body_hash /\ prev.signature # call.signature)

\* two runs at one clock reading that differ only in the body
C11_Witness ==
  /\ TwoSignedRuns /\ prev.t = call.t /\ SameRequestLine(prev, call)
  /\ prev.body_str # call.body_str
  /\ prev.signature # call.signature

\* the UTC day of a clock reading
utc_day(t) == t \div 86400

\* C13: the same request signed with a clock reading whose UTC date is one
\* day later gets another signing key and another signature: for two runs of
\* the process on both sides of midnight, and for every run signed again 24
\* hours later.
C13_NextDayChangesKeyAndSignature ==
  /\ (TwoSignedRuns /\ SameRequestLine(prev, call) /\ prev.body_str = call.body_str
        /\ utc_day(call.t) = utc_day(prev.t) + 1) =>
       (prev.k_signing # call.k_signing /\ prev.signature # call.signature)
  /\ (call.signed /\ call.caller \in CallApiFamily) =>
       LET later == sign_and_post(call.caller, call.path, call.query, call.host, call.body,
                                  call.t + 86400)
       IN /\ later.short_date # call.short_date
          /\ later.k_signing # call.k_signing
          /\ later.signature # call.signature

\* the same request signed before and after midnight
C13_Witness ==
  /\ TwoSignedRuns /\ SameRequestLine(prev, call) /\ prev.body_str = call.body_str
  /\ utc_day(call.t) = utc_day(prev.t) + 1
  /\ prev.k_signing # call.k_signing

\* the credential scope written in an Authorization value: what stands
\* between the "/" after the access key and ", SignedHeaders="
AuthorizationScope(auth) ==
  LET a == CHOOSE i \in 1..Len(auth) : auth[i] = "/" /\ \A j \in 1..(i - 1) : auth[j] # "/"
      b == CHOOSE i \in 1..Len(auth) : auth[i] = ", SignedHeaders="
  IN SubSeq(auth, a + 1, b - 1)

\* the SignedHeaders field of an Authorization value
AuthorizationSignedHeaders(auth) ==
  LET a == CHOOSE i \in 1..Len(auth) : auth[i] = ", SignedHeaders="
      b == CHOOSE i \in 1..Len(auth) : auth[i] = ", Signature="
  IN SubSeq(auth, a + 1, b - 1)

\* C14: in every signed request the signing key is
\* HMAC(HMAC(HMAC(HMAC(secret, D), R), S), "request") and the credential scope
\* of the Authorization header is D/R/S/request, D being the first 8
\* characters of the request's X-Date, R the region, S the service; also when
\* the UTC day changes between two calls.
C14_KeyChainMatchesScope ==
  (call.signed /\ call.caller \in ApiCallers) =>
    LET D == Prefix(call.x_date, 8)
    IN /\ Len(D) = 8
       /\ call.k_signing
            = hmac_sha256(hmac_sha256(hmac_sha256(hmac_sha256(SK.v, D), REGION), SERVICE),
                          <<"request">>)
       /\ AuthorizationScope(call.authorization)
            = D \o <<"/">> \o REGION \o <<"/">> \o SERVICE \o <<"/">> \o <<"request">>

\* a call signed on the day after the one of the call before it
C14_Witness ==
  /\ TwoSignedRuns
  /\ Prefix(prev.x_date, 8) = <<"2", "0", "2", "5", "0", "6", "0", "9">>
  /\ Prefix(call.x_date, 8) = <<"2", "0", "2", "5", "0", "6", "1", "0">>
  /\ AuthorizationScope(call.authorization) # AuthorizationScope(prev.authorization)

\* the normalized query a caller signs
SignedQuery(c) ==
  IF c.caller = "request" THEN client_norm_query(c.query) ELSE norm_query(c.query)

\* C16: in every copy of the signer the canonical request is, line by line:
\* the method, the path, the normalized query, the header lines content-type,
\* host, x-content-sha256, x-date in that order, one empty line, the list
\* content-type;host;x-content-sha256;x-date, and the body hash; and
\* SignedHeaders of Authorization is that same list.
C16_CanonicalRequestLayout ==
  (call.signed /\ call.caller \in ApiCallers) =>
    /\ Lines(call.canonical_request)
         = << call.method,
              call.path,
              SignedQuery(call),
              <<"content-type", ":", "application/json">>,
              <<"host", ":">> \o call.host,
              <<"x-content-sha256", ":">> \o call.body_hash,
              <<"x-date", ":">> \o call.x_date,
              <<>>,
              <<"content-type", ";", "host", ";", "x-content-sha256", ";", "x-date">>,
              call.body_hash >>
    /\ AuthorizationSignedHeaders(call.authorization)
         = <<"content-type", ";", "host", ";", "x-content-sha256", ";", "x-date">>

\* request() has signed a request with extra query parameters
C16_Witness ==
  /\ call.signed /\ call.caller = "request" /\ Len(call.query) > 2
  /\ Len(Lines(call.canonical_request)) = 10
  /\ Lines(call.canonical_request)[8] = <<>>

\* the same dict with its keys inserted in any other order
InsertionOrders(d) ==
  { [i \in 1..Len(d) |-> d[p[i]]] :
      p \in { q \in [1..Len(d) -> 1..Len(d)] : \A i, j \in 1..Len(d) : i # j => q[i] # q[j] } }

\* C12: for a query mapping with unique keys, the normalized query of both
\* norm_query implementations, and the canonical request and signature of a
\* request signed with that query, are the same for every order in which the
\* keys were inserted.
C12_QueryOrderIndependent ==
  /\ arg.f = "norm_query" => \A d \in InsertionOrders(arg.params) : norm_query(d) = ret
  /\ arg.f = "client_norm_query" => \A d \in InsertionOrders(arg.params) : client_norm_query(d) = ret
  /\ arg.f = "request" =>
       \A d \in InsertionOrders(arg.params) :
         LET other == request(<<"POST">>, CreateVikingdbCollection, arg.body, Some(d), None, call.t)
         IN /\ other.canonical_request = call.canonical_request
            /\ other.signature = call.signature

\* a query of three keys that were not inserted in sorted order was normalized
\* and signed
C12_Witness ==
  /\ arg.f = "request" /\ call.signed
  /\ Len(arg.params) = 3
  /\ arg.params # SortedItems(arg.params)
  /\ ret = call.signature

\* the pieces of a text between separators
RECURSIVE SplitOn(_, _)
SplitOn(s, sep) ==
  IF \A i \in 1..Len(s) : s[i] # sep THEN <<s>>
  ELSE LET k == CHOOSE i \in 1..Len(s) : s[i] = sep /\ \A j \in 1..(i - 1) : s[j] # sep
       IN <<Prefix(s, k - 1)>> \o SplitOn(IF k = Len(s) THEN <<>> ELSE SubSeq(s, k + 1, Len(s)), sep)

\* the unreserved characters
Unreserved == Letters \cup Digits \cup {"-", "_", ".", "~"}

\* a text with every character that is not unreserved written as %XX
PercentEncoded(s) ==
  Join(<<>>, [i \in 1..Len(s) |->
    IF s[i] \in Unreserved THEN <<s[i]>>
    ELSE <<"%", HexDigits[(ord(s[i]) \div 16) + 1], HexDigits[(ord(s[i]) % 16) + 1]>>])

\* the key=value pairs a mapping stands for: one for a single value, one for
\* each element of a list, in list order, the keys ascending
RECURSIVE QueryPairs(_)
QueryPairs(items) ==
  IF items = <<>> THEN <<>>
  ELSE LET it == Head(items)
           vs == IF it.val.list THEN it.val.v ELSE <<it.val.v[1]>>
       IN [i \in 1..Len(vs) |-> PercentEncoded(it.key) \o <<"=">> \o PercentEncoded(vs[i])]
          \o QueryPairs(Tail(items))

\* C17: every norm_query emits one key=value pair for each element of a list
\* value, in list order, in the one pass over the sorted keys, joins the pairs
\* with "&" without a trailing separator, and gives the empty string for the
\* empty mapping.
C17_ListValuesOnePairEach ==
  arg.f \in {"norm_query", "client_norm_query"} =>
    ret = Join(<<"&">>, QueryPairs(SortedItems(arg.params)))

\* the single values of a mapping
ScalarOnly(params) == \A i \in 1..Len(params) : ~params[i].val.list

\* C18: norm_query leaves letters, digits, "-", "_", "." and "~" as they are
\* in keys and values, writes every other character as %XX, a space as %20,
\* and never writes "+" for a space.
C18_PercentEncoding ==
  arg.f \in {"norm_query", "client_norm_query"} =>
    /\ \A i \in 1..Len(ret) : ret[i] \in Unreserved \cup {"%", "=", "&"}
    /\ ScalarOnly(arg.params) =>
         /\ arg.params = <<>> => ret = <<>>
         /\ arg.params # <<>> =>
              { SplitOn(ret, "&")[i] : i \in 1..Len(SplitOn(ret, "&")) }
                = { PercentEncoded(arg.params[i].key) \o <<"=">> \o PercentEncoded(arg.params[i].val.v[1])
                    : i \in 1..Len(arg.params) }

\* norm_query of list.py has encoded a key with a blank and a value with a
\* blank, a plus sign and a tilde
C18_Witness ==
  /\ arg.f = "norm_query" /\ ScalarOnly(arg.params)
  /\ \E i \in 1..Len(arg.params) :
       /\ arg.params[i].key = <<"a", " ", "b">>
       /\ arg.params[i].val.v[1] = <<"x", " ", "+", "~", "/">>
  /\ Contains(ret, <<"a", "%", "2", "0", "b", "=", "x", "%", "2", "0", "%", "2", "B", "~", "%", "2", "F">>)

\* C19: every API caller serializes its body to JSON with the compact
\* separators "," and ":" before it hashes and before it sends it.
C19_BodySerializedCompact ==
  (call.body.set /\ call.caller # "none") =>
    /\ call.body_str = json_dumps_compact(call.body)
    /\ call.wire.sent => call.wire.data = json_dumps_compact(call.body)
    /\ (call.signed /\ call.caller \in ApiCallers) =>
         call.body_hash = sha256_hex(json_dumps_compact(call.body))

\* the call of task i run alone, with the clock reading task i took
Alone(i) ==
  LET a == tasks[i].args
  IN IF a.caller = "request"
     THEN request(a.method, a.action, a.body, a.query, a.extra_headers, tasks[i].t)
     ELSE call_vikingdb(a.action, a.body, a.host, a.path, VERSION, tasks[i].t)

\* C15: when several API calls run concurrently, in every interleaving each
\* call hands to the transport the headers and the body it would produce
\* running alone with the same arguments and clock reading, and at every
\* statement its variables hold what they would hold alone: no call sees a
\* value another call wrote.
C15_ConcurrentCallsIndependent ==
  pc = "threads" =>
    \A i \in 1..NumTasks :
      /\ tasks[i].pc > ClockStep(i) =>
           /\ tasks[i].frame.x_date = Alone(i).x_date
           /\ tasks[i].frame.short_date = Alone(i).short_date
      /\ tasks[i].pc > SerializeStep(i) => tasks[i].frame.body_str = Alone(i).body_str
      /\ tasks[i].pc > 2 =>
           /\ tasks[i].frame.body_hash = Alone(i).body_hash
           /\ tasks[i].frame.canonical_request = Alone(i).canonical_request
      /\ tasks[i].pc > 3 =>
           /\ tasks[i].frame.signature = Alone(i).signature
           /\ tasks[i].frame.authorization = Alone(i).authorization
      /\ tasks[i].pc > 4 =>
           /\ tasks[i].headers = Alone(i).wire.headers
           /\ tasks[i].data = Alone(i).wire.data

\* two calls, one through request() and one through call_vikingdb, read the
\* clock in different seconds, and the one that read it first sent last
C15_Witness ==
  /\ pc = "threads"
  /\ tasks[1].pc = 5 /\ tasks[2].pc = 4
  /\ tasks[2].t < tasks[1].t
  /\ tasks[1].args.caller # tasks[2].args.caller
  /\ tasks[1].headers # <<>>

\* a Delete request of one of the two delete scripts has gone out
DeleteSent ==
  /\ script \in {"deleteVikingDBCollection", "deleteVikingDBIndex"}
  /\ call.wire.sent

\* the phrase each script asks for
C20_Phrase ==
  IF script = "deleteVikingDBCollection" THEN <<"DELETE", " ", "FOREVER">>
  ELSE <<"DELETE", " ", "INDEX", " ", "FOREVER">>

RECURSIVE Trimmed(_)
Trimmed(line) ==
  IF line # <<>> /\ line[1] = " " THEN Trimmed(Tail(line))
  ELSE IF line # <<>> /\ line[Len(line)] = " " THEN Trimmed(SubSeq(line, 1, Len(line) - 1))
  ELSE line

C30_QuerySentIsQuerySigned ==
  (call.wire.sent /\ call.caller \in ApiCallers) =>
    /\ call.wire.params = call.query
    /\ Lines(call.canonical_request)[3] = Join(<<"&">>, QueryPairs(SortedItems(call.wire.params)))

\* request() has sent a query with Action, Version and a repeated key
C30_Witness ==
  /\ call.wire.sent /\ call.caller = "request"
  /\ HasKey(call.wire.params, ActionKey)
  /\ HasKey(call.wire.params, <<"T", "a", "g">>)
  /\ Lines(call.canonical_request)[3] # <<>>

\* C28: for the same credential, clock reading, method, host, region,
\* scalar-valued query mapping and serialized body string, request() of the
\* control-plane client and call_api build the same canonical request and
\* the same Authorization header.
C28_RequestAgreesWithCallApi ==
  ( /\ arg.f = "request and call_api"
    /\ call.t = prev.t
    /\ call.method = prev.method
    /\ call.host = prev.host
    /\ call.query = prev.query
    /\ call.body_str = prev.body_str ) =>
      /\ call.canonical_request = prev.canonical_request
      /\ call.authorization = prev.authorization

\* both signers signed the body {} for an action whose name needs escaping,
\* request() having been given the method in lower case
C28_Witness ==
  /\ arg.f = "request and call_api"
  /\ call.signed /\ prev.signed
  /\ call.caller = "request" /\ prev.caller = "call_api"
  /\ call.body_str = <<"{", "}">> /\ prev.body_str = <<"{", "}">>
  /\ call.query = prev.query
  /\ Get(call.query, ActionKey).v[1] = <<"A", " ", "b", "+", "/">>
  /\ call.wire.method = <<"post">>
  /\ call.authorization = prev.authorization

\* a paging function has returned its list
PagingReturned ==
  /\ fn.name \in {"list_all_collections", "list_all_indexes"}
  /\ pc = "idle" /\ result.kind = "return"

\* C25: against a service that holds N items, answers page p with the p-th
\* slice of PageSize items and reports TotalCount = N, list_all_collections
\* and list_all_indexes ask for the pages 1, 2, 3, ... in increasing order,
\* each once, and return all N items exactly once in the service's order.
C25_PagesInOrderItemsOnce ==
  arg.f = "paged" =>
    /\ ret = [i \in 1..Len(ret) |-> i]
    /\ PagingReturned => result.items = [i \in 1..arg.params[1] |-> i]

\* list_all_indexes(page_size=1) returned three items after asking for the
\* pages 1, 2 and 3
C25_Witness ==
  /\ arg.f = "paged" /\ PagingReturned
  /\ fn.name = "list_all_indexes" /\ fn.page_size = 1
  /\ ret = <<1, 2, 3>>
  /\ result.items = <<1, 2, 3>>

\* C29: list_all_collections and list_all_indexes terminate whenever the
\* service reports a fixed finite TotalCount: every pass of the loop either
\* ends the loop or leaves strictly more items collected, the number of page
\* requests never exceeds max(1, TotalCount), and the function returns.
C29_PagingTerminates ==
  /\ [](Len(ret) <= (IF arg.params[1] > 1 THEN arg.params[1] ELSE 1))
  /\ [][(pc = "returned" /\ pc' # "returned") =>
          (pc' = "idle" \/ Len(fn'.got) > Len(fn.got))]_vars
  /\ <>PagingReturned

\* list_all_collections returned after as many page requests as the
\* TotalCount the service reported, one item a page
C29_Witness ==
  /\ arg.f = "any" /\ arg.params[1] = MaxItems
  /\ PagingReturned /\ fn.name = "list_all_collections"
  /\ Len(ret) = MaxItems
  /\ Len(result.items) = MaxItems

\* the checks the arguments of update_index have to pass
C22_ArgumentsValid ==
  LET a == arg.params[1]
  IN /\ a.index_name # <<>>
     /\ (a.collection_name.set /\ a.collection_name.v # <<>>)
          \/ (a.resource_id.set /\ a.resource_id.v # <<>>)
     /\ a.cpu_quota.set => a.cpu_quota.v \in 1..10240
     /\ a.shard_policy.set => a.shard_policy.v \in {<<"auto">>, <<"custom">>}
     /\ a.shard_count.set => a.shard_count.v \in 1..256

\* at least one change parameter is not None
C22_SomeChange ==
  LET a == arg.params[1]
  IN a.new_description.set \/ a.cpu_quota.set \/ a.shard_policy.set \/ a.shard_count.set
       \/ a.scalar_index

\* the line typed at the prompt reads YES: in either case, blanks around it
C22_TypedYes ==
  /\ Len(arg.params) = 2
  /\ LET t == Trimmed(arg.params[2])
     IN /\ Len(t) = 3
        /\ t[1] \in {"Y", "y"} /\ t[2] \in {"E", "e"} /\ t[3] \in {"S", "s"}

\* C22: update_index sends the UpdateVikingdbIndex request only if index_name
\* is non-empty, a collection_name or resource_id is given, cpu_quota (when
\* given) is in 1..10240, shard_policy (when given) is "auto" or "custom",
\* shard_count (when given) is in 1..256, at least one change parameter is
\* not None, and the user typed YES; a failed validation raises ValueError and
\* in every other case the function returns None, with no request sent.
C22_UpdateIndexSendsOnlyWhenValid ==
  arg.f = "update_index" =>
    /\ (call.caller # "none") =>
         /\ C22_ArgumentsValid /\ C22_SomeChange /\ C22_TypedYes
         /\ Get(call.query, ActionKey).v[1] = UpdateVikingdbIndex
    /\ (pc = "idle" /\ ~C22_ArgumentsValid) =>
         result.kind = "raise" /\ result.exc = <<"ValueError">> /\ call.caller = "none"
    /\ (pc = "idle" /\ C22_ArgumentsValid /\ ~(C22_SomeChange /\ C22_TypedYes)) =>
         result.kind = "return" /\ result.none /\ call.caller = "none"

\* update_index(shard_policy="custom", shard_count=2) sent its request after
\* " yes" was typed
C22_Witness ==
  /\ arg.f = "update_index" /\ call.wire.sent
  /\ arg.params[1].shard_count = SomeInt(2)
  /\ arg.params[2] = <<" ", "y", "e", "s">>
  /\ pc = "idle" /\ result.kind = "return"

\* C21: update_collection_description changes only the Description: once
\* its UpdateVikingdbCollection request is applied, the collection's Fields
\* are the Fields the collection had immediately before that request, in
\* every interleaving with other clients that change the collection between
\* the Get request and the Update request of the function.
C21_FieldsUnchangedByUpdate ==
  (script = "update" /\ tasks.applied) => tasks.after = tasks.before

(***************************************************************************)
(* delete_data and fetch_by_id                                             *)
(***************************************************************************)
\* delete_data has handed a request to the transport
DeleteDataSent == script = "delete" /\ call.wire.sent

\* the line typed at "Delete ALL data in collection?" chose YES
C23_ChoseAll == str_upper(Trimmed(arg.params[2])) = <<"Y", "E", "S">>

\* the keys of the body that was sent
C23_BodyKeys == {call.body.v[i].key : i \in 1..Len(call.body.v)}

\* C23: delete_data sends the delete request only after the final
\* confirmation YES; when 'delete ALL' was chosen it is sent only if the
\* exact string DELETEALL was typed before that, and its body then has
\* del_all = true and no ids; when 'delete ALL' was not chosen the body has
\* ids and no del_all.
C23_DeleteDataOnlyAfterExactDeleteAll ==
  DeleteDataSent =>
    /\ Len(arg.params) = 4
    /\ str_upper(Trimmed(arg.params[4])) = <<"Y", "E", "S">>
    /\ IF C23_ChoseAll
       THEN /\ arg.params[3] = <<"D", "E", "L", "E", "T", "E", "A", "L", "L">>
            /\ C23_BodyKeys = {<<"collection_name">>, <<"del_all">>}
            /\ call.body.v[2].val = [list |-> FALSE, v |-> << <<"true">> >>]
       ELSE C23_BodyKeys = {<<"collection_name">>, <<"ids">>}

\* C23, amended: delete_data sends the delete request only after the final
\* confirmation YES (in any case, blanks around it dropped); when 'delete
\* ALL' was chosen it is sent only if the line typed before that is DELETEALL
\* in upper case once the blanks around it are dropped, and its body then has
\* del_all = true and no ids; when 'delete ALL' was not chosen the body has
\* ids and no del_all.
C23_DeleteDataOnlyAfterTrimmedDeleteAll ==
  DeleteDataSent =>
    /\ Len(arg.params) = 4
    /\ str_upper(Trimmed(arg.params[4])) = <<"Y", "E", "S">>
    /\ IF C23_ChoseAll
       THEN /\ Trimmed(arg.params[3]) = <<"D", "E", "L", "E", "T", "E", "A", "L", "L">>
            /\ C23_BodyKeys = {<<"collection_name">>, <<"del_all">>}
            /\ call.body.v[2].val = [list |-> FALSE, v |-> << <<"true">> >>]
       ELSE C23_BodyKeys = {<<"collection_name">>, <<"ids">>}

\* delete_data sent its request after 'delete ALL' was chosen and DELETEALL
\* was typed with a blank after it
C23_Witness ==
  /\ DeleteDataSent /\ pc = "idle"
  /\ C23_ChoseAll
  /\ arg.params[3] = <<"D", "E", "L", "E", "T", "E", "A", "L", "L", " ">>
  /\ <<"del_all">> \in C23_BodyKeys

\* the line typed where the IDs were asked for, once it has been typed
C24_IdLine == IF script = "delete" THEN arg.params[3] ELSE arg.params[2]

C24_IdLineTyped ==
  /\ script \in {"delete", "fetchDataIn(Collection)"}
  /\ IF script = "delete" THEN Len(arg.params) >= 3 /\ ~C23_ChoseAll ELSE Len(arg.params) >= 2

\* the position of the last comma before position i of line, 0 if there is none
C24_CommaBefore(line, i) ==
  LET at == {k \in 1..(i - 1) : line[k] = ","}
  IN IF at = {} THEN 0 ELSE CHOOSE k \in at : \A m \in at : m <= k

\* the position of the first comma after position i of line, Len + 1 if there is none
C24_CommaAfter(line, i) ==
  LET at == {k \in (i + 1)..Len(line) : line[k] = ","}
  IN IF at = {} THEN Len(line) + 1 ELSE CHOOSE k \in at : \A m \in at : m >= k

\* the positions where an entry of line begins: not a blank, not a comma, and
\* nothing but blanks back to the comma before it
C24_Starts(line) ==
  {i \in 1..Len(line) :
     /\ line[i] \notin {",", " "}
     /\ \A k \in (C24_CommaBefore(line, i) + 1)..(i - 1) : line[k] = " "}

\* the entry beginning at i, up to its last character that is not a blank
C24_EntryAt(line, i) ==
  LET ends == {j \in i..(C24_CommaAfter(line, i) - 1) : line[j] # " "}
  IN SubSeq(line, i, CHOOSE j \in ends : \A m \in ends : m <= j)

\* the trimmed non-empty entries of line, in the order of line
C24_Entries(line) ==
  LET starts == C24_Starts(line)
  IN [r \in 1..Cardinality(starts) |->
        C24_EntryAt(line, CHOOSE i \in starts : Cardinality({j \in starts : j < i}) = r - 1)]

\* the ids of the body that was sent, as they were before json.dumps
C24_SentIds ==
  LET at == CHOOSE i \in 1..Len(call.body.v) : call.body.v[i].key = <<"ids">>
  IN [r \in 1..Len(call.body.v[at].val.v) |->
        SubSeq(call.body.v[at].val.v[r], 2, Len(call.body.v[at].val.v[r]) - 1)]

\* C24: every by-ID request built from a comma-separated ID input
\* (delete_data, fetch_by_id) carries a non-empty ids list made of the
\* trimmed non-empty entries of the input in input order, and delete_data's
\* list never has more than 100 entries (the first 100 are kept); when the
\* input contains no ID, no request is sent.
C24_IdsAreTheTypedEntries ==
  C24_IdLineTyped =>
    /\ C24_Entries(C24_IdLine) = <<>> => ~call.wire.sent
    /\ call.wire.sent =>
         /\ C24_SentIds # <<>>
         /\ Len(C24_SentIds) <= Len(C24_Entries(C24_IdLine))
         /\ script = "delete" => Len(C24_SentIds) <= 100
         /\ Len(C24_SentIds) < Len(C24_Entries(C24_IdLine)) =>
              script = "delete" /\ Len(C24_SentIds) = 100
         /\ \A r \in 1..Len(C24_SentIds) : C24_SentIds[r] = C24_Entries(C24_IdLine)[r]

(***************************************************************************)
(* The menu of task.py                                                     *)
(***************************************************************************)
\* a request was sent since the menu line in ret was typed
C26_SentForChoice == script = "task" /\ ret # <<>> /\ nsent > tasks

\* the Action of the request sent last
C26_Action == call.query[1].val.v[1]

\* the request sent last creates a task of the type, given as JSON text
C26_Creates(type) ==
  /\ C26_Action = <<"C", "r", "e", "a", "t", "e", "V", "i", "k", "i", "n", "g", "d", "b", "T", "a", "s", "k">>
  /\ \E i \in 1..Len(call.body.v) :
       /\ call.body.v[i].key = <<"TaskType">>
       /\ call.body.v[i].val.v[1] = type

\* the request sent last lists tasks
C26_Lists ==
  C26_Action = <<"L", "i", "s", "t", "V", "i", "k", "i", "n", "g", "d", "b", "T", "a", "s", "k">>

\* C26: in the main menu of task.py each displayed option triggers the
\* operation its label names (1 lists tasks, 2 creates a filter_delete task,
\* 3 creates a filter_update task, 0 exits), and no input other than the
\* displayed options sends a request.
C26_MenuOptionsDoWhatTheyName ==
  /\ C26_SentForChoice =>
       /\ Trimmed(ret[1]) \in {<<"1">>, <<"2">>, <<"3">>}
       /\ Trimmed(ret[1]) = <<"1">> => C26_Lists
       /\ Trimmed(ret[1]) = <<"2">> =>
            \/ nsent = tasks + 1 /\ C26_Creates(<<"\"filter_delete\"">>)
            \/ nsent = tasks + 2 /\ C26_Lists
       /\ Trimmed(ret[1]) = <<"3">> =>
            \/ nsent = tasks + 1 /\ C26_Creates(<<"\"filter_update\"">>)
            \/ nsent = tasks + 2 /\ C26_Lists
  /\ (script = "task" /\ pc = "exited") => Trimmed(ret[1]) = <<"0">>

(***************************************************************************)
(* bulk_upsert                                                             *)
(***************************************************************************)
\* the upserts that are in flight
C27_InFlight == {i \in 1..Len(tasks.status) : tasks.status[i] = "in flight"}

\* C27: during bulk_upsert, in every interleaving of the upsert tasks, at
\* most CONCURRENCY_LIMIT (10) upsert requests are in flight at any moment,
\* and bulk_upsert reports its counts only after every URL's upsert has
\* completed.
C27_AtMostTenInFlight ==
  script = "test" =>
    /\ Cardinality(C27_InFlight) <= 10
    /\ ret # <<>> =>
         /\ Len(tasks.status) = NumUrls
         /\ \A i \in 1..NumUrls : tasks.status[i] \in {"ok", "failed"}
         /\ ret[1] + ret[2] = NumUrls
         /\ ret[1] = Cardinality({i \in 1..NumUrls : tasks.status[i] = "ok"})

\* ten upserts are in flight while one more task waits for the semaphore
C27_Witness ==
  /\ script = "test" /\ pc = "gather"
  /\ Cardinality(C27_InFlight) = 10
  /\ \E i \in 1..Len(tasks.status) : tasks.status[i] = "created"
====
